---- MODULE Spec2Model ----
(***************************************************************************)
(* Token-Background-Check: the detection and scoring engine.               *)
(*                                                                         *)
(*   BundlerDetector.detect   src/src/bundler_detector.py                  *)
(*   TraderAnalyzer.analyze   src/src/trader_analyzer.py                   *)
(*   RiskScorer.score         src/src/risk_scorer.py                       *)
(*   DataFetcher              src/src/data_fetcher.py                      *)
(*                                                                         *)
(* Encoding of Python values.                                              *)
(*   - a wallet address or a mint is a string; "" stands for a missing or  *)
(*     empty value (None and "" are both falsy in the code);               *)
(*   - a slot or a timestamp is an integer >= 0; NoSlot / NoTs stand for   *)
(*     None (the key is absent);                                           *)
(*   - tokenAmount is a record [kind, val]: "num" a number, "str" a        *)
(*     string holding the number val, "bad" a string float() rejects,      *)
(*     "none" None / absent;                                               *)
(*   - an optional value (dict.get with a default, a report not yet        *)
(*     returned) is a sequence: <<>> absent, <<v>> present;                *)
(*   - a percentage is a fixed-point number with four decimals (the        *)
(*     precision the fetcher rounds holder percentages to), kept as an     *)
(*     integer number of ten-thousandths: Pct(30) is 30.0000.              *)
(***************************************************************************)
EXTENDS Integers, Sequences, FiniteSets, TLC

VARIABLES
    transactions,      \* the transaction list handed to detect and analyze
    token_data,        \* score(): token metadata record
    holder_analysis,   \* score(): holders, bare list or wrapper record
    bundle_analysis,   \* score(): bundle report handed in
    rugcheck_data,     \* score(): third-party report
    bundle_report,     \* what detect returned (<<>> before the call)
    trader_report,     \* what analyze returned (<<>> before the call)
    risk_report,       \* what score returned (<<>> before the call, or if it raised)
    score_raised,      \* score ended with an exception
    detect_raised,     \* detect ended with an exception
    analyze_raised,    \* analyze ended with an exception
    catalog,           \* RiskScorer._FACTORS, the class attribute every scorer shares
    fetch              \* the DataFetcher call in progress: method, requests still
                       \* to make, loop index, log of the retry loop, values made

vars == <<transactions, token_data, holder_analysis, bundle_analysis,
          rugcheck_data, bundle_report, trader_report, risk_report, score_raised,
          detect_raised, analyze_raised, catalog, fetch>>

----------------------------------------------------------------------------
(* Generic helpers.                                                        *)

NoSlot == -1
NoTs == -1

Pct(n) == n * 10000

Min2(a, b) == IF a < b THEN a ELSE b
Max2(a, b) == IF a > b THEN a ELSE b

Range(s) == {s[i] : i \in 1..Len(s)}

RECURSIVE SumSeq(_)
SumSeq(s) == IF s = <<>> THEN 0 ELSE Head(s) + SumSeq(Tail(s))

\* dict.get(key, default) on an optional field
Get(opt, default) == IF opt = <<>> THEN default ELSE opt[1]

\* Python's sorted(s, key=...): stable, ascending. s is a sequence of
\* records with an integer field k (the key): each element is inserted into
\* the sorted prefix after every element whose key is <= its own.
RECURSIVE InsertByKey(_, _)
InsertByKey(x, s) ==
    IF s = <<>> THEN <<x>>
    ELSE IF Head(s).k <= x.k
         THEN <<Head(s)>> \o InsertByKey(x, Tail(s))
         ELSE <<x>> \o s

RECURSIVE SortedByKey(_)
SortedByKey(s) ==
    IF s = <<>> THEN <<>>
    ELSE InsertByKey(s[Len(s)], SortedByKey(SubSeq(s, 1, Len(s) - 1)))

\* mutant: an element is placed before the elements of equal key
RECURSIVE InsertByKeyDesc_BeforeEquals(_, _)
InsertByKeyDesc_BeforeEquals(x, s) ==
    IF s = <<>> THEN <<x>>
    ELSE IF Head(s).k > x.k
         THEN <<Head(s)>> \o InsertByKeyDesc_BeforeEquals(x, Tail(s))
         ELSE <<x>> \o s

\* sorted(s, key=..., reverse=True): stable, descending (equal keys keep their
\* original relative order).
RECURSIVE InsertByKeyDesc(_, _)
InsertByKeyDesc(x, s) ==
    IF s = <<>> THEN <<x>>
    ELSE IF Head(s).k >= x.k
         THEN <<Head(s)>> \o InsertByKeyDesc(x, Tail(s))
         ELSE <<x>> \o s

RECURSIVE SortedByKeyDesc(_)
SortedByKeyDesc(s) ==
    IF s = <<>> THEN <<>>
    ELSE InsertByKeyDesc(s[Len(s)], SortedByKeyDesc(SubSeq(s, 1, Len(s) - 1)))

\* the values of a sequence of [k, v] records
Values(s) == [i \in 1..Len(s) |-> s[i].v]

\* s[:n]
Take(s, n) == SubSeq(s, 1, Min2(n, Len(s)))

\* The distinct elements of s in the order of their first occurrence: the key
\* order of a dict filled while scanning s.
RECURSIVE Distinct(_)
Distinct(s) ==
    IF s = <<>> THEN <<>>
    ELSE LET init == Distinct(SubSeq(s, 1, Len(s) - 1))
             x    == s[Len(s)]
         IN IF x \in Range(init) THEN init ELSE Append(init, x)

\* round(x, 2) of a percentage: to the nearest hundredth, ties to even
Round2(x) ==
    LET q == x \div 100
        r == x % 100
    IN 100 * (IF r > 50 \/ (r = 50 /\ q % 2 = 1) THEN q + 1 ELSE q)

\* mutant: the quotient cut after the second decimal
RoundPct_Truncating(num, den) == 100 * ((num * 10000) \div den)

\* round(num / den * 100, 2): the nearest hundredth of the exact quotient,
\* ties to even
RoundPct(num, den) ==
    LET n == num * 10000
        q == n \div den
        r == n % den
    IN 100 * (IF 2 * r > den \/ (2 * r = den /\ q % 2 = 1) THEN q + 1 ELSE q)

----------------------------------------------------------------------------
(* Transactions.                                                           *)

\* txn.get("feePayer") or txn.get("fee_payer")
FeePayerOf(txn) == IF txn.feePayer # "" THEN txn.feePayer ELSE txn.fee_payer

----------------------------------------------------------------------------
(* BundlerDetector                                                         *)

BUNDLE_MIN_SIZE == 3
SUSPICIOUS_MIN_SIZE == 5
EARLY_SLOT_WINDOW == 10

\* sorted(keys): comparing None with a number is a TypeError
SortRaises(keys) == Len(keys) >= 2 /\ NoSlot \in Range(keys)

\* mutant: _group_by_slot keeps the transactions without slot under the key None
SlotKeysWithNone(txns) == Distinct([i \in 1..Len(txns) |-> txns[i].slot])

\* _group_by_slot: the dict's keys, in insertion order
SlotKeys(txns) ==
    Distinct(SelectSeq([i \in 1..Len(txns) |-> txns[i].slot],
                       LAMBDA s : s # NoSlot))

\* _group_by_slot: the dict's value at slot
SlotGroup(txns, slot) == SelectSeq(txns, LAMBDA t : t.slot = slot)

\* mutant: one entry per transaction of the group, a repeated payer counted again
GroupWalletsPerTxn(group) ==
    {IF \E j \in 1..(i - 1) : FeePayerOf(group[j]) = FeePayerOf(group[i])
        THEN "dup" ELSE FeePayerOf(group[i]) : i \in 1..Len(group)} \ {""}

\* _identify_bundles, the loop body: the wallet set of one slot group
GroupWallets(group) == {FeePayerOf(group[i]) : i \in 1..Len(group)} \ {""}

RECURSIVE CollectBundles(_, _)
CollectBundles(txns, keys) ==
    IF keys = <<>> THEN <<>>
    ELSE LET slot    == Head(keys)
             group   == SlotGroup(txns, slot)
             wallets == GroupWallets(group)
             rest    == CollectBundles(txns, Tail(keys))
         IN IF Cardinality(wallets) >= BUNDLE_MIN_SIZE
            THEN <<[slot |-> slot, wallets |-> wallets,
                    size |-> Cardinality(wallets), txn_count |-> Len(group),
                    suspicious |-> FALSE]>> \o rest
            ELSE rest

\* mutant: the early-slot test left out
is_suspicious_bundle_SizeOnly(bundle, early_slots) ==
    bundle.size >= SUSPICIOUS_MIN_SIZE

\* sorted(bundles, key=lambda b: b["size"], reverse=True)
identify_bundles(txns) ==
    LET bundles == CollectBundles(txns, SlotKeys(txns))
    IN Values(SortedByKeyDesc([i \in 1..Len(bundles) |->
                                  [k |-> bundles[i].size, v |-> bundles[i]]]))

is_suspicious_bundle(bundle, early_slots) ==
    IF bundle.size >= SUSPICIOUS_MIN_SIZE THEN TRUE
    ELSE IF bundle.slot \in early_slots THEN TRUE
    ELSE FALSE

\* mutant: the window taken in discovery order, without sorting
EarlySlotsByDiscovery(txns) == Range(Take(SlotKeys(txns), EARLY_SLOT_WINDOW))

\* set(sorted(slot_groups.keys())[:EARLY_SLOT_WINDOW])
EarlySlots(txns) ==
    LET keys == SlotKeys(txns)
        all_slots == Values(SortedByKey([i \in 1..Len(keys) |->
                                            [k |-> keys[i], v |-> keys[i]]]))
    IN Range(Take(all_slots, EARLY_SLOT_WINDOW))

\* mutant: only the fee payers of transactions that have a slot
AllFeePayersWithSlot(txns) ==
    {FeePayerOf(txns[i]) : i \in {j \in 1..Len(txns) : txns[j].slot # NoSlot}} \ {""}

AllFeePayers(txns) == {FeePayerOf(txns[i]) : i \in 1..Len(txns)} \ {""}

\* detect ends with an exception: sorted(slot_groups.keys())
detect_raises(txns) == txns # <<>> /\ SortRaises(SlotKeys(txns))

BundlerEmptyResult ==
    [total_bundles |-> 0, bundle_groups |-> <<>>, suspicious_bundles |-> 0,
     bundled_wallet_percentage |-> 0]

\* a bundle's wallets are the set here; Detect lists them (ListWallets)
detect(txns) ==
    IF txns = <<>> THEN BundlerEmptyResult
    ELSE LET found   == identify_bundles(txns)
             early   == EarlySlots(txns)
             bundles == [i \in 1..Len(found) |->
                            [found[i] EXCEPT !.suspicious =
                                is_suspicious_bundle(found[i], early)]]
             suspicious_count ==
                 Cardinality({i \in 1..Len(bundles) : bundles[i].suspicious})
             bundled_wallets == UNION {bundles[i].wallets : i \in 1..Len(bundles)}
             n_payers == Cardinality(AllFeePayers(txns))
             total_wallets == IF n_payers = 0 THEN 1 ELSE n_payers
         IN [total_bundles |-> Len(bundles),
             bundle_groups |-> bundles,
             suspicious_bundles |-> suspicious_count,
             bundled_wallet_percentage |->
                 RoundPct(Cardinality(bundled_wallets), total_wallets)]

----------------------------------------------------------------------------
(* TraderAnalyzer                                                          *)

BOT_MIN_TXNS == 5
BOT_AVG_INTERVAL_SECS == 30
WASH_WINDOW_SECS == 3600
WASH_MIN_CYCLES == 2
SYBIL_CLUSTER_SIZE == 3

RECURSIVE Concat(_)
Concat(ss) == IF ss = <<>> THEN <<>> ELSE Head(ss) \o Concat(Tail(ss))

NonEmpty(addrs) == SelectSeq(addrs, LAMBDA a : a # "")

\* analyze, first loop: the addresses one transaction registers, in the order
\* the loop meets them (fee payer, then each transfer's from and to)
Mentions(txn) ==
    NonEmpty(<<FeePayerOf(txn)>>)
    \o Concat([i \in 1..Len(txn.tokenTransfers) |->
                  NonEmpty(<<txn.tokenTransfers[i].fromUserAccount,
                             txn.tokenTransfers[i].toUserAccount>>)])

\* analyze: list(wallet_txns.keys()), the dict's insertion order
AllWallets(txns) == Distinct(Concat([i \in 1..Len(txns) |-> Mentions(txns[i])]))

\* mutant: the transactions that name the wallet anywhere, not only as payer
WalletTxns_Mentioning(txns, wallet) ==
    SelectSeq(txns, LAMBDA t : wallet \in Range(Mentions(t)))

\* analyze: wallet_txns[wallet]
WalletTxns(txns, wallet) == SelectSeq(txns, LAMBDA t : FeePayerOf(t) = wallet)

\* _is_bot: sorted(t for t in (txn.get("timestamp") ...) if t is not None)
SortedTimestamps(wallet_txns) ==
    LET present == SelectSeq([i \in 1..Len(wallet_txns) |-> wallet_txns[i].timestamp],
                             LAMBDA t : t # NoTs)
    IN Values(SortedByKey([i \in 1..Len(present) |->
                              [k |-> present[i], v |-> present[i]]]))

\* mutant: the count test lets a wallet with exactly BOT_MIN_TXNS transactions through
is_bot_FromMinTxns(wallet_txns) ==
    IF Len(wallet_txns) < BOT_MIN_TXNS THEN FALSE
    ELSE LET timestamps == SortedTimestamps(wallet_txns)
         IN IF Len(timestamps) < 2 THEN FALSE
            ELSE LET intervals == [i \in 1..(Len(timestamps) - 1) |->
                                      timestamps[i + 1] - timestamps[i]]
                 IN SumSeq(intervals) < BOT_AVG_INTERVAL_SECS * Len(intervals)

\* avg_interval = sum(intervals) / len(intervals); avg_interval < limit, decided
\* on the exact quotient
is_bot(wallet_txns) ==
    IF Len(wallet_txns) <= BOT_MIN_TXNS THEN FALSE
    ELSE LET timestamps == SortedTimestamps(wallet_txns)
         IN IF Len(timestamps) < 2 THEN FALSE
            ELSE LET intervals == [i \in 1..(Len(timestamps) - 1) |->
                                      timestamps[i + 1] - timestamps[i]]
                 IN SumSeq(intervals) < BOT_AVG_INTERVAL_SECS * Len(intervals)

\* mutant: a transfer that has a sender is a sell
TxnEvents_SellWhenSent(txn) ==
    IF txn.timestamp = NoTs THEN <<>>
    ELSE LET named == SelectSeq(txn.tokenTransfers, LAMBDA tr : tr.mint # "")
         IN [i \in 1..Len(named) |->
                [mint |-> named[i].mint, ts |-> txn.timestamp,
                 dir |-> IF named[i].fromUserAccount = "" THEN "buy" ELSE "sell"]]

\* _is_wash_trader: the events one transaction appends, each with its mint
TxnEvents(txn) ==
    IF txn.timestamp = NoTs THEN <<>>
    ELSE LET named == SelectSeq(txn.tokenTransfers, LAMBDA tr : tr.mint # "")
         IN [i \in 1..Len(named) |->
                [mint |-> named[i].mint, ts |-> txn.timestamp,
                 dir |-> IF named[i].toUserAccount # "" THEN "buy" ELSE "sell"]]

\* _is_wash_trader: events[mint], in append order
MintEvents(wallet_txns, mint) ==
    SelectSeq(Concat([i \in 1..Len(wallet_txns) |-> TxnEvents(wallet_txns[i])]),
              LAMBDA e : e.mint = mint)

EventMints(wallet_txns) ==
    {e.mint : e \in Range(Concat([i \in 1..Len(wallet_txns) |->
                                     TxnEvents(wallet_txns[i])]))}

\* sorted(mint_events, key=lambda e: e["ts"])
SortedEvents(mint_events) ==
    Values(SortedByKey([i \in 1..Len(mint_events) |->
                           [k |-> mint_events[i].ts, v |-> mint_events[i]]]))

\* mutant: the pending buy is kept when a cycle completes
ScanStep_KeepsPending(st, ev) ==
    IF ev.dir = "buy"
    THEN [st EXCEPT !.bought_at = <<ev.ts>>]
    ELSE IF ev.dir = "sell" /\ st.bought_at # <<>>
         THEN IF ev.ts - st.bought_at[1] <= WASH_WINDOW_SECS
              THEN [st EXCEPT !.cycles = @ + 1]
              ELSE st
         ELSE st

\* _count_buy_sell_cycles, the loop body: st = [cycles, bought_at], bought_at
\* <<>> for None
ScanStep(st, ev) ==
    IF ev.dir = "buy"
    THEN [st EXCEPT !.bought_at = <<ev.ts>>]
    ELSE IF ev.dir = "sell" /\ st.bought_at # <<>>
         THEN IF ev.ts - st.bought_at[1] <= WASH_WINDOW_SECS
              THEN [cycles |-> st.cycles + 1, bought_at |-> <<>>]
              ELSE st
         ELSE st

\* _count_buy_sell_cycles, the loop
RECURSIVE ScanCycles(_, _)
ScanCycles(events, st) ==
    IF events = <<>> THEN st
    ELSE ScanCycles(Tail(events), ScanStep(st, Head(events)))

count_buy_sell_cycles(events) ==
    ScanCycles(events, [cycles |-> 0, bought_at |-> <<>>]).cycles

\* mutant: one timeline for all mints, cycles of different mints added together
is_wash_trader_AcrossMints(wallet_txns, all_txns) ==
    IF Len(wallet_txns) < WASH_MIN_CYCLES * 2 THEN FALSE
    ELSE count_buy_sell_cycles(SortedEvents(
             Concat([i \in 1..Len(wallet_txns) |-> TxnEvents(wallet_txns[i])])))
                >= WASH_MIN_CYCLES

is_wash_trader(wallet_txns, all_txns) ==
    IF Len(wallet_txns) < WASH_MIN_CYCLES * 2 THEN FALSE
    ELSE \E mint \in EventMints(wallet_txns) :
            count_buy_sell_cycles(SortedEvents(MintEvents(wallet_txns, mint)))
                >= WASH_MIN_CYCLES

\* _is_sybil, first loop: the transactions it does not skip
SybilTxns(txns) ==
    SelectSeq(txns, LAMBDA t : ~(t.slot = NoSlot \/ FeePayerOf(t) = ""))

\* _is_sybil: slot_wallets[slot]
SlotWallets(txns, slot) ==
    {FeePayerOf(t) : t \in {u \in Range(SybilTxns(txns)) : u.slot = slot}}

\* float(amt): the exception it raises, "" when it returns
FloatError(amt) ==
    CASE amt.kind = "bad" -> "ValueError"
      [] OTHER            -> ""

\* mutant: except TypeError only
SybilCaughtTypeErrorOnly == {"TypeError"}

\* _is_sybil: except (TypeError, ValueError)
SybilCaught == {"TypeError", "ValueError"}

\* _is_sybil ends with an exception: a float(amt) error the except clause
\* does not name, on an amount that is not None
is_sybil_raises(txns) ==
    \E t \in Range(SybilTxns(txns)) :
        \E tr \in Range(t.tokenTransfers) :
            /\ tr.tokenAmount.kind # "none"
            /\ FloatError(tr.tokenAmount) \notin SybilCaught \cup {""}

\* float(amt) of the amounts that are not None; <<>> where it raises
ParseAmount(amt) ==
    CASE amt.kind = "num" -> <<amt.val>>
      [] amt.kind = "str" -> <<amt.val>>
      [] OTHER            -> <<>>

TxnAmounts(txn) ==
    Concat([i \in 1..Len(txn.tokenTransfers) |->
               ParseAmount(txn.tokenTransfers[i].tokenAmount)])

\* _is_sybil: slot_amounts[slot]
SlotAmounts(txns, slot) ==
    LET in_slot == SelectSeq(SybilTxns(txns), LAMBDA t : t.slot = slot)
    IN Concat([i \in 1..Len(in_slot) |-> TxnAmounts(in_slot[i])])

\* mutant: two other wallets are enough
is_sybil_TwoOthers(wallet, all_wallets, txns) ==
    \E slot \in {t.slot : t \in Range(SybilTxns(txns))} :
        /\ wallet \in SlotWallets(txns, slot)
        /\ Cardinality(SlotWallets(txns, slot) \ {wallet}) >= SYBIL_CLUSTER_SIZE - 1
        /\ LET amounts == SlotAmounts(txns, slot)
           IN /\ Len(amounts) > 1
              /\ Cardinality(Range(amounts)) <= Max2(1, Len(amounts) \div 5)

\* mutant: the wallet itself counted among the co-appearing wallets
is_sybil_CountingSelf(wallet, all_wallets, txns) ==
    \E slot \in {t.slot : t \in Range(SybilTxns(txns))} :
        /\ wallet \in SlotWallets(txns, slot)
        /\ Cardinality(SlotWallets(txns, slot)) >= SYBIL_CLUSTER_SIZE
        /\ LET amounts == SlotAmounts(txns, slot)
           IN /\ Len(amounts) > 1
              /\ Cardinality(Range(amounts)) <= Max2(1, Len(amounts) \div 5)

is_sybil(wallet, all_wallets, txns) ==
    \E slot \in {t.slot : t \in Range(SybilTxns(txns))} :
        /\ wallet \in SlotWallets(txns, slot)
        /\ Cardinality(SlotWallets(txns, slot) \ {wallet}) >= SYBIL_CLUSTER_SIZE
        /\ LET amounts == SlotAmounts(txns, slot)
           IN /\ Len(amounts) > 1
              /\ Cardinality(Range(amounts)) <= Max2(1, Len(amounts) \div 5)

\* mutant: sybil tested before wash_trader
LabelOf_SybilFirst(bot, wash, sybil) ==
    IF bot THEN "bot"
    ELSE IF sybil THEN "sybil"
    ELSE IF wash THEN "wash_trader"
    ELSE "real"

\* analyze: the label chosen from the three flags
LabelOf(bot, wash, sybil) ==
    IF bot THEN "bot"
    ELSE IF wash THEN "wash_trader"
    ELSE IF sybil THEN "sybil"
    ELSE "real"

\* analyze, second loop, one iteration: acc = [details, counts]
ClassifyWallet(txns, wallet, all_wallets, acc) ==
    LET own   == WalletTxns(txns, wallet)
        bot   == is_bot(own)
        wash  == is_wash_trader(own, txns)
        sybil == is_sybil(wallet, all_wallets, txns)
        label == LabelOf(bot, wash, sybil)
    IN [details |-> Append(acc.details,
                       [wallet |-> wallet, label |-> label, txn_count |-> Len(own),
                        is_bot |-> bot, is_wash_trader |-> wash, is_sybil |-> sybil]),
        counts  |-> [acc.counts EXCEPT ![label] = @ + 1]]

\* analyze, second loop: for wallet, txns in wallet_txns.items()
RECURSIVE ClassifyAll(_, _, _, _)
ClassifyAll(txns, todo, all_wallets, acc) ==
    IF todo = <<>> THEN acc
    ELSE ClassifyAll(txns, Tail(todo), all_wallets,
                     ClassifyWallet(txns, Head(todo), all_wallets, acc))

\* analyze ends with an exception: _is_sybil is called once there is a wallet
analyze_raises(txns) ==
    /\ txns # <<>>
    /\ AllWallets(txns) # <<>>
    /\ is_sybil_raises(txns)

TraderEmptyResult ==
    [total_wallets |-> 0, real_traders |-> 0, bots |-> 0, wash_traders |-> 0,
     sybil_wallets |-> 0, trader_details |-> <<>>, bot_percentage |-> 0]

analyze(txns, holders) ==
    IF txns = <<>> THEN TraderEmptyResult
    ELSE LET all_wallets == AllWallets(txns)
             done == ClassifyAll(txns, all_wallets, all_wallets,
                         [details |-> <<>>,
                          counts  |-> [real |-> 0, bot |-> 0, wash_trader |-> 0,
                                       sybil |-> 0]])
             total == IF Len(all_wallets) = 0 THEN 1 ELSE Len(all_wallets)
         IN [total_wallets |-> Len(all_wallets),
             real_traders |-> done.counts.real,
             bots |-> done.counts.bot,
             wash_traders |-> done.counts.wash_trader,
             sybil_wallets |-> done.counts.sybil,
             trader_details |-> done.details,
             bot_percentage |-> RoundPct(done.counts.bot, total)]

----------------------------------------------------------------------------
(* RiskScorer                                                              *)

FACTORS ==
    <<[id |-> "mint_authority_not_revoked", points |-> 25,
       description |-> "Mint authority has NOT been revoked - developer can mint unlimited tokens"],
      [id |-> "freeze_authority_not_revoked", points |-> 20,
       description |-> "Freeze authority has NOT been revoked - developer can freeze holder wallets"],
      [id |-> "top10_concentration_high", points |-> 20,
       description |-> "Top 10 holders own >80% of supply - extreme concentration risk"],
      [id |-> "top10_concentration_medium", points |-> 10,
       description |-> "Top 10 holders own 50-80 % of supply - elevated concentration risk"],
      [id |-> "bundler_percentage_high", points |-> 15,
       description |-> "More than 30 % of wallets are bundled - likely coordinated launch"],
      [id |-> "bot_percentage_high", points |-> 10,
       description |-> "More than 50 % of active wallets appear to be bots"],
      [id |-> "no_liquidity_info", points |-> 10,
       description |-> "No liquidity pool information found - token may be illiquid"],
      [id |-> "rugcheck_high_risk", points |-> 20,
       description |-> "RugCheck.xyz flagged this token as high risk (score > 500)"]>>

\* mutant: the new entry is put in front of the list
Add_Prepending(acc, factor_id) ==
    LET found == SelectSeq(catalog, LAMBDA f : f.id = factor_id)
    IN IF found = <<>> THEN acc
       ELSE [accumulated_points |-> acc.accumulated_points + found[1].points,
             triggered_factors |->
                 <<[name |-> factor_id, points |-> found[1].points,
                    description |-> found[1].description]>>
                 \o acc.triggered_factors]

\* mutant: the catalog entry itself is appended
Add_Aliasing(acc, factor_id) ==
    LET found == SelectSeq(catalog, LAMBDA f : f.id = factor_id)
    IN IF found = <<>> THEN acc
       ELSE [accumulated_points |-> acc.accumulated_points + found[1].points,
             triggered_factors |-> Append(acc.triggered_factors, found[1])]

\* score._add: acc = [accumulated_points, triggered_factors]; self._FACTORS is
\* the class attribute
Add(acc, factor_id) ==
    LET found == SelectSeq(catalog, LAMBDA f : f.id = factor_id)
    IN IF found = <<>> THEN acc
       ELSE [accumulated_points |-> acc.accumulated_points + found[1].points,
             triggered_factors |->
                 Append(acc.triggered_factors,
                        [name |-> factor_id, points |-> found[1].points,
                         description |-> found[1].description])]

AddIf(cond, acc, factor_id) == IF cond THEN Add(acc, factor_id) ELSE acc

\* mutant: a wrapper record is read as no holders
Holders_BareOnly(ha) == IF ha.kind = "dict" THEN <<>> ELSE ha.holders

\* score: holder_analysis normalised to a list
Holders(ha) ==
    IF ha.kind = "dict" THEN Get(ha.holders, <<>>) ELSE ha.holders

HolderPct(h) == Get(h.percentage, 0)

\* mutant: the first 10 holders as given, without sorting
top10_concentration_Unsorted(holders) ==
    IF holders = <<>> THEN 0
    ELSE SumSeq([i \in 1..Len(Take(holders, 10)) |-> HolderPct(holders[i])])

top10_concentration(holders) ==
    IF holders = <<>> THEN 0
    ELSE LET top10 == Take(Values(SortedByKeyDesc(
                          [i \in 1..Len(holders) |->
                              [k |-> HolderPct(holders[i]), v |-> holders[i]]])), 10)
         IN SumSeq([i \in 1..Len(top10) |-> HolderPct(top10[i])])

\* the record an absent tokenMeta and token default to: {}
EmptyMeta == [kind |-> "dict", markets |-> <<>>, liquidity |-> <<>>]

\* _has_liquidity: token_info
TokenInfo(report) == Get(report.tokenMeta, Get(report.token, EmptyMeta))

\* _has_liquidity reaches token_info.get on a value that is no dict
has_liquidity_raises(rd) ==
    /\ rd # <<>>
    /\ Get(rd[1].markets, <<>>) = <<>>
    /\ TokenInfo(rd[1]).kind # "dict"

\* mutant: liquidity evidence looked for under tokenMeta and under token
has_liquidity_EitherRecord(rd) ==
    IF rd = <<>> THEN FALSE
    ELSE IF Get(rd[1].markets, <<>>) # <<>> THEN TRUE
    ELSE \E token_info \in {Get(rd[1].tokenMeta, EmptyMeta),
                            Get(rd[1].token, EmptyMeta)} :
             \/ Get(token_info.markets, <<>>) # <<>>
             \/ Get(token_info.liquidity, 0) # 0

has_liquidity(rd) ==
    IF rd = <<>> THEN FALSE
    ELSE IF Get(rd[1].markets, <<>>) # <<>> THEN TRUE
    ELSE LET token_info == TokenInfo(rd[1])
         IN \/ Get(token_info.markets, <<>>) # <<>>
            \/ Get(token_info.liquidity, 0) # 0

\* mutant: every threshold value kept in the lower tier
get_risk_level_Inclusive(total) ==
    IF total <= 25 THEN "LOW"
    ELSE IF total <= 50 THEN "MEDIUM"
    ELSE IF total <= 75 THEN "HIGH"
    ELSE "CRITICAL"

get_risk_level(total) ==
    IF total < 25 THEN "LOW"
    ELSE IF total < 50 THEN "MEDIUM"
    ELSE IF total < 75 THEN "HIGH"
    ELSE "CRITICAL"

\* mutant: the accumulated points returned without the cap
TotalScore_Uncapped(accumulated_points) == accumulated_points

\* score: total_score = min(accumulated_points, 100)
\* mutant: the total wraps at 100 instead of being capped
TotalScore_Wrapping(accumulated_points) ==
    IF accumulated_points > 100 THEN accumulated_points - 100
    ELSE accumulated_points

TotalScore(accumulated_points) == Min2(accumulated_points, 100)

\* mutant: the thresholds themselves trigger
Exceeds_Inclusive(value, threshold) == value >= threshold

\* score: bundled_pct > 30, bot_pct > 50, rugcheck_score > 500
Exceeds(value, threshold) == value > threshold

\* mutant: a record without the flag counts as revoked
MintRevoked_DefaultTrue(td) == Get(td.mint_authority_revoked, TRUE)

\* score: token_data.get("mint_authority_revoked", False)
MintRevoked(td) == Get(td.mint_authority_revoked, FALSE)

\* mutant: the accumulators are kept between calls: a call goes on from the
\* factor list (and its points) the call before returned
StartAccumulator_Carried ==
    IF risk_report = <<>> THEN [accumulated_points |-> 0, triggered_factors |-> <<>>]
    ELSE LET last == risk_report[Len(risk_report)].factors
         IN [accumulated_points |-> SumSeq([i \in 1..Len(last) |-> last[i].points]),
             triggered_factors |-> last]

\* score: accumulated_points = 0, triggered_factors = []
StartAccumulator == [accumulated_points |-> 0, triggered_factors |-> <<>>]

\* score, for inputs on which _has_liquidity returns
score(td, ha, ba, rd) ==
    LET holders        == Holders(ha)
        mint_revoked   == MintRevoked(td)
        freeze_revoked == Get(td.freeze_authority_revoked, FALSE)
        acc0 == StartAccumulator
        acc1 == AddIf(~mint_revoked, acc0, "mint_authority_not_revoked")
        acc2 == AddIf(~freeze_revoked, acc1, "freeze_authority_not_revoked")
        top10_pct == top10_concentration(holders)
        acc3 == IF top10_pct > Pct(80) THEN Add(acc2, "top10_concentration_high")
                ELSE IF top10_pct > Pct(50) THEN Add(acc2, "top10_concentration_medium")
                ELSE acc2
        bundled_pct == IF ba # <<>> THEN Get(ba[1].bundled_wallet_percentage, 0) ELSE 0
        acc4 == AddIf(Exceeds(bundled_pct, Pct(30)), acc3, "bundler_percentage_high")
        bot_pct == Get(td.bot_percentage, 0)
        acc5 == AddIf(Exceeds(bot_pct, Pct(50)), acc4, "bot_percentage_high")
        liquidity_locked == has_liquidity(rd)
        acc6 == AddIf(~liquidity_locked, acc5, "no_liquidity_info")
        rugcheck_score == IF rd # <<>> THEN Get(rd[1].score, 0) ELSE 0
        acc7 == AddIf(rugcheck_score # 0 /\ Exceeds(rugcheck_score, 500), acc6,
                      "rugcheck_high_risk")
        total_score == TotalScore(acc7.accumulated_points)
    IN [total_score |-> total_score,
        risk_level |-> get_risk_level(total_score),
        factors |-> acc7.triggered_factors,
        mint_authority_revoked |-> mint_revoked,
        freeze_authority_revoked |-> freeze_revoked,
        top10_concentration |-> Round2(top10_pct),
        liquidity_locked |-> liquidity_locked,
        bot_percentage |-> bot_pct,
        bundled_wallet_percentage |-> bundled_pct]

----------------------------------------------------------------------------
(* DataFetcher   src/src/data_fetcher.py                                   *)
(* A JSON value is a record with a kind: "none" is null, "list" carries    *)
(* items, "dict" carries the keys the fetcher reads as optional fields     *)
(* (result, value, name for content.metadata.name, uiAmount).              *)

MAX_RETRIES == 2

None_ == [kind |-> "none"]
JsonList(items) == [kind |-> "list", items |-> items]
JsonDict(result, value, name, uiAmount) ==
    [kind |-> "dict", result |-> result, value |-> value, name |-> name,
     uiAmount |-> uiAmount]
\* {}
EmptyDict == JsonDict(<<>>, <<>>, <<>>, <<>>)

IsDict(x) == x.kind = "dict"
\* not x
Falsy(x) ==
    \/ x.kind = "none"
    \/ x = EmptyDict
    \/ (x.kind = "list" /\ x.items = <<>>)

\* what requests.post / requests.get ends with
Timeout == [kind |-> "timeout", code |-> 0, body |-> None_]
ConnectionError == [kind |-> "connection", code |-> 0, body |-> None_]
Response(code, body) == [kind |-> "response", code |-> code, body |-> body]
\* time.sleep(1.5 ** attempt) in the loop's log
Sleep(attempt) == [kind |-> "sleep", code |-> attempt, body |-> None_]

\* resp.raise_for_status() raises HTTPError
RaisesForStatus(o) == o.kind = "response" /\ 400 <= o.code /\ o.code < 600

\* one pass through the try block of a retry loop: the loop returns value,
\* or the pass ends in an except clause that falls through to the retry
Returns(value) == [returns |-> TRUE, value |-> value]
FallsThrough == [returns |-> FALSE, value |-> EmptyDict]

\* _post_with_retry, lines 40-56
TryPost(o) ==
    IF o.kind = "timeout" THEN FallsThrough
    ELSE IF o.kind = "connection" THEN FallsThrough
    ELSE IF RaisesForStatus(o)
         THEN IF 400 <= o.code /\ o.code < 500 THEN Returns(EmptyDict)
              ELSE FallsThrough
         ELSE Returns(o.body)

\* _get_with_retry, lines 69-86
TryGet(o) ==
    IF o.kind = "timeout" THEN FallsThrough
    ELSE IF o.kind = "connection" THEN FallsThrough
    ELSE IF o.code = 404 THEN Returns(EmptyDict)
    ELSE IF RaisesForStatus(o)
         THEN IF 400 <= o.code /\ o.code < 500 THEN Returns(EmptyDict)
              ELSE FallsThrough
         ELSE Returns(o.body)

\* get_rugcheck_report, lines 207-216: one request, no retry
TryRugcheck(o) ==
    IF o.kind \in {"timeout", "connection"} THEN EmptyDict
    ELSE IF o.code = 404 THEN EmptyDict
    ELSE IF RaisesForStatus(o) THEN EmptyDict
    ELSE o.body

\* mutant: the back-off sleep follows every failed attempt
SleepsAfter_EveryAttempt(attempt) == TRUE

\* if attempt < _MAX_RETRIES: time.sleep(1.5 ** attempt)
SleepsAfter(attempt) == attempt < MAX_RETRIES

\* x.get(...) where x is data.get("result", {}): AttributeError unless a dict
ResultOf(data) == Get(data.result, EmptyDict)

\* get_token_info, lines 127-152, on the dict the retry loop returned
get_token_info_raises(data) ==
    \/ ~IsDict(data)
    \/ (~Falsy(ResultOf(data)) /\ ~IsDict(ResultOf(data)))
get_token_info(data) ==
    LET result == ResultOf(data)
    IN IF Falsy(result) THEN EmptyDict
       ELSE [kind |-> "token_info", address |-> "T",
             name |-> Get(result.name, "Unknown")]

\* get_token_supply, lines 179-185
get_token_supply_raises(data) ==
    \/ ~IsDict(data)
    \/ ~IsDict(ResultOf(data))
    \/ ~IsDict(Get(ResultOf(data).value, EmptyDict))
get_token_supply(data) ==
    LET value == Get(ResultOf(data).value, EmptyDict)
    IN [kind |-> "supply", uiAmount |-> Get(value.uiAmount, 0)]

\* round(ui_amount / total_supply_ui * 100, 4), in ten-thousandths, ties to even
Round4(ui_amount, total) ==
    LET n == ui_amount * 1000000
        q == n \div total
        r == n % total
    IN IF 2 * r > total \/ (2 * r = total /\ q % 2 = 1) THEN q + 1 ELSE q

\* get_token_largest_accounts, lines 157-174, on the supply record and on the
\* dict the second retry loop returned
largest_accounts_raises(data) ==
    \/ ~IsDict(data)
    \/ ~IsDict(ResultOf(data))
    \/ Get(ResultOf(data).value, JsonList(<<>>)).kind # "list"
get_token_largest_accounts(supply_data, data) ==
    LET total_supply_ui == supply_data.uiAmount
        accounts == Get(ResultOf(data).value, JsonList(<<>>)).items
        holders == [i \in 1..Len(accounts) |->
                       [k |-> accounts[i].uiAmount,
                        v |-> [address |-> accounts[i].address,
                               amount |-> accounts[i].uiAmount,
                               percentage |->
                                   IF total_supply_ui # 0
                                   THEN Round4(accounts[i].uiAmount, total_supply_ui)
                                   ELSE 0]]]
    IN Values(SortedByKeyDesc(holders))

\* get_recent_transactions, lines 195-198
get_recent_transactions(result) ==
    IF result.kind = "list" THEN result.items ELSE <<>>

\* the requests a public method makes, in order
Program(method) ==
    CASE method = "get_token_info" -> <<"getAsset">>
      [] method = "get_token_supply" -> <<"getTokenSupply">>
      [] method = "get_token_largest_accounts" ->
             <<"getTokenSupply", "getTokenLargestAccounts">>
      [] method = "get_recent_transactions" -> <<"transactions">>
      [] method = "get_rugcheck_report" -> <<"rugcheck">>
      [] method = "get_all_token_data" ->
             <<"getAsset", "getTokenSupply", "getTokenLargestAccounts",
               "transactions", "rugcheck">>

Methods ==
    {"get_token_info", "get_token_supply", "get_token_largest_accounts",
     "get_recent_transactions", "get_rugcheck_report", "get_all_token_data"}

\* the code after a request: whether it raises on what the request returned
Raises(request, data) ==
    CASE request = "getAsset" -> get_token_info_raises(data)
      [] request = "getTokenSupply" -> get_token_supply_raises(data)
      [] request = "getTokenLargestAccounts" -> largest_accounts_raises(data)
      [] OTHER -> FALSE

\* the code after a request: what it makes of what the request returned;
\* parts are the values made so far
Parse(request, data, parts) ==
    CASE request = "getAsset" -> get_token_info(data)
      [] request = "getTokenSupply" -> get_token_supply(data)
      [] request = "getTokenLargestAccounts" ->
             get_token_largest_accounts(parts[Len(parts)], data)
      [] request = "transactions" -> get_recent_transactions(data)
      [] request = "rugcheck" -> data

\* the value the public method returns
ReturnValue(method, parts) ==
    CASE method = "get_token_largest_accounts" -> parts[2]
      [] method = "get_all_token_data" ->
             [token_address |-> "T", token_info |-> parts[1], holders |-> parts[3],
              transactions |-> parts[4], rugcheck |-> parts[5]]
      [] OTHER -> parts[1]

\* no call in progress
FetchIdle ==
    [method |-> "", todo |-> <<>>, attempt |-> 0, asleep |-> FALSE, log |-> <<>>,
     returned |-> <<>>, parts |-> <<>>, result |-> <<>>, raised |-> FALSE]

----------------------------------------------------------------------------
(* Inputs and operations common to every specification.                    *)

Txn(fp, slot, ts, transfers) ==
    [feePayer |-> fp, fee_payer |-> "", slot |-> slot, timestamp |-> ts,
     tokenTransfers |-> transfers]

Transfer(mint, amount, from, to) ==
    [mint |-> mint, tokenAmount |-> amount, fromUserAccount |-> from,
     toUserAccount |-> to]

Num(v) == [kind |-> "num", val |-> v]
Str(v) == [kind |-> "str", val |-> v]
BadAmount == [kind |-> "bad", val |-> 0]
NoAmount == [kind |-> "none", val |-> 0]

\* the same transaction with its payer under the alternative key
AltKey(txn) == [txn EXCEPT !.feePayer = "", !.fee_payer = txn.feePayer]

WalletNames == <<"w1", "w2", "w3", "w4", "w5", "w6", "w7", "w8", "w9">>

\* score() inputs of the specifications that never call score
NoTokenData == [mint_authority_revoked |-> <<>>, freeze_authority_revoked |-> <<>>,
                bot_percentage |-> <<>>]
NoHolders == [kind |-> "list", holders |-> <<>>]

ScoreIdle ==
    /\ token_data = NoTokenData
    /\ holder_analysis = NoHolders
    /\ bundle_analysis = <<>>
    /\ rugcheck_data = <<>>
    /\ risk_report = <<>>
    /\ score_raised = FALSE

\* The iteration order of a set of str follows the interpreter's string
\* hashing, which is seeded anew for every interpreter run: one order per
\* seed, here the two that list the names upwards and downwards.
HashSeeds == {1, 2}

IterationOrder(seed) ==
    LET up == <<"w0">> \o WalletNames
    IN IF seed = 1 THEN up ELSE [i \in 1..Len(up) |-> up[Len(up) + 1 - i]]

\* _identify_bundles: "wallets": list(wallets)
ListWallets(report, seed) ==
    [report EXCEPT !.bundle_groups =
        [i \in 1..Len(@) |->
            [@[i] EXCEPT !.wallets =
                SelectSeq(IterationOrder(seed), LAMBDA w : w \in @)]]]

\* BundlerDetector().detect(transactions)
Detect ==
    /\ bundle_report = <<>>
    /\ ~detect_raised
    /\ IF detect_raises(transactions)
       THEN /\ detect_raised' = TRUE
            /\ bundle_report' = <<>>
       ELSE /\ detect_raised' = FALSE
            /\ \E seed \in HashSeeds :
                   bundle_report' = <<ListWallets(detect(transactions), seed)>>
    /\ UNCHANGED <<transactions, token_data, holder_analysis, bundle_analysis,
                   rugcheck_data, trader_report, risk_report, score_raised,
                   analyze_raised, catalog, fetch>>

\* TraderAnalyzer().analyze(transactions, holders)
Analyze ==
    /\ trader_report = <<>>
    /\ ~analyze_raised
    /\ IF analyze_raises(transactions)
       THEN /\ analyze_raised' = TRUE
            /\ trader_report' = <<>>
       ELSE /\ analyze_raised' = FALSE
            /\ trader_report' = <<analyze(transactions, Holders(holder_analysis))>>
    /\ UNCHANGED <<transactions, token_data, holder_analysis, bundle_analysis,
                   rugcheck_data, bundle_report, risk_report, score_raised,
                   detect_raised, catalog, fetch>>

\* RiskScorer().score(token_data, holder_analysis, bundle_analysis, rugcheck_data)
Score ==
    /\ risk_report = <<>>
    /\ ~score_raised
    /\ IF has_liquidity_raises(rugcheck_data)
       THEN /\ score_raised' = TRUE
            /\ risk_report' = <<>>
       ELSE /\ score_raised' = FALSE
            /\ risk_report' = <<score(token_data, holder_analysis, bundle_analysis,
                                      rugcheck_data)>>
    /\ UNCHANGED <<transactions, token_data, holder_analysis, bundle_analysis,
                   rugcheck_data, bundle_report, trader_report, detect_raised,
                   analyze_raised, catalog, fetch>>

----------------------------------------------------------------------------
(* SpecBundle: detect on transaction lists made of slot blocks.            *)
(* A block is n transactions of n distinct wallets in one slot; "dup" adds *)
(* a second transaction of its first wallet, "anon" a transaction without  *)
(* fee payer, "alt" keeps the payers under the fee_payer key. A background *)
(* of solo transactions (one wallet, slots 1..k) comes before or after the *)
(* blocks, so that more than EARLY_SLOT_WINDOW distinct slots occur and    *)
(* discovery order differs from numeric order.                             *)

MaxBundle == 5
MaxSolo == 11

BlockSlots == {NoSlot, 0, MaxSolo, 20}
BlockKinds == {"plain", "dup", "anon", "alt"}

Block(slot, n, kind, off) ==
    LET plain == [i \in 1..n |-> Txn(WalletNames[i + off], slot, 0, <<>>)]
    IN CASE kind = "plain" -> plain
         [] kind = "dup"   -> plain \o <<Txn(WalletNames[1 + off], slot, 0, <<>>)>>
         [] kind = "anon"  -> plain \o <<Txn("", slot, 0, <<>>)>>
         [] kind = "alt"   -> [i \in 1..n |-> AltKey(plain[i])]

Background(k) == [i \in 1..k |-> Txn("w0", i, 0, <<>>)]

BlockLists ==
    {<<>>}
    \cup {Block(s, n, kind, 0) :
            s \in BlockSlots, n \in 2..MaxBundle, kind \in BlockKinds}
    \cup {Block(s1, n1, kind1, 0) \o Block(s2, n2, kind2, 2) :
            s1 \in BlockSlots, n1 \in 2..MaxBundle, kind1 \in BlockKinds,
            s2 \in BlockSlots, n2 \in 2..MaxBundle, kind2 \in BlockKinds}

BundleInputs ==
    {Background(k) \o b : k \in {0, MaxSolo - 2, MaxSolo - 1, MaxSolo}, b \in BlockLists}
    \cup {b \o Background(k) : k \in {MaxSolo - 1, MaxSolo}, b \in BlockLists}

InitBundle ==
    /\ transactions \in BundleInputs
    /\ bundle_report = <<>>
    /\ trader_report = <<>>
    /\ detect_raised = FALSE
    /\ analyze_raised = FALSE
    /\ catalog = FACTORS
    /\ fetch = FetchIdle
    /\ ScoreIdle

NextBundle == Detect

SpecBundle == InitBundle /\ [][NextBundle]_vars

\* what the claims about detect read off the input
InputSlots == {transactions[i].slot : i \in 1..Len(transactions)} \ {NoSlot}
PayersAt(slot) ==
    {FeePayerOf(transactions[i]) :
        i \in {j \in 1..Len(transactions) : transactions[j].slot = slot}} \ {""}
BundlesAt(groups, slot) == {i \in 1..Len(groups) : groups[i].slot = slot}

\* C4: detect returns exactly one bundle for each slot whose transactions have
\* at least 3 distinct fee payers and none for any other slot; each bundle's
\* wallets are the distinct fee payers of its slot, size = |wallets| >= 3, and
\* total_bundles is the number of bundles returned.
C4_BundlesAreSlotsWithThreePayers ==
    bundle_report # <<>> =>
        LET r == bundle_report[1]
            groups == r.bundle_groups
        IN /\ \A s \in InputSlots :
                Cardinality(BundlesAt(groups, s)) =
                    IF Cardinality(PayersAt(s)) >= 3 THEN 1 ELSE 0
           /\ \A i \in 1..Len(groups) :
                /\ groups[i].slot \in InputSlots
                /\ Range(groups[i].wallets) = PayersAt(groups[i].slot)
                /\ groups[i].size = Len(groups[i].wallets)
                /\ groups[i].size = Cardinality(Range(groups[i].wallets))
                /\ groups[i].size >= 3
           /\ r.total_bundles = Len(groups)

\* a bundle whose slot holds a repeated fee payer or a payer-less transaction,
\* beside a slot with too few payers and a transaction without slot
C4_Witness ==
    /\ bundle_report # <<>>
    /\ \E i \in 1..Len(bundle_report[1].bundle_groups) :
          bundle_report[1].bundle_groups[i].txn_count >
              bundle_report[1].bundle_groups[i].size
    /\ \E s \in InputSlots : Cardinality(PayersAt(s)) \in 1..2
    /\ \E i \in 1..Len(transactions) :
          transactions[i].slot = NoSlot /\ FeePayerOf(transactions[i]) # ""

\* the EARLY_SLOT_WINDOW numerically smallest distinct slots of the input
SmallestSlots ==
    {s \in InputSlots : Cardinality({t \in InputSlots : t < s}) < 10}

\* C5: a bundle is suspicious iff size >= 5 or its slot is among the 10
\* numerically smallest distinct slots of the input; suspicious_bundles counts
\* the bundles flagged.
C5_SuspiciousIffLargeOrEarly ==
    bundle_report # <<>> =>
        LET r == bundle_report[1]
            groups == r.bundle_groups
        IN /\ \A i \in 1..Len(groups) :
                groups[i].suspicious <=>
                    (groups[i].size >= 5 \/ groups[i].slot \in SmallestSlots)
           /\ r.suspicious_bundles =
                Cardinality({i \in 1..Len(groups) : groups[i].suspicious})

\* a small bundle outside the window and a small bundle inside it, the late
\* one discovered first
C5_Witness ==
    /\ bundle_report # <<>>
    /\ transactions # <<>>
    /\ LET groups == bundle_report[1].bundle_groups
       IN /\ \E i \in 1..Len(groups) :
                ~groups[i].suspicious /\ groups[i].slot = transactions[1].slot
          /\ \E i \in 1..Len(groups) :
                groups[i].suspicious /\ groups[i].size < 5

----------------------------------------------------------------------------
(* SpecBot: analyze on the transactions of one wallet, each with a         *)
(* timestamp or none, in any list order, alone or after a transaction of   *)
(* another wallet.                                                         *)

MaxBotTxns == 6

BotStamps == {NoTs, 0, 60, 150}

BotRuns ==
    UNION {{[i \in 1..n |-> Txn("w1", NoSlot, ts[i], <<>>)] : ts \in [1..n -> BotStamps]} :
             n \in 0..MaxBotTxns}

BotInputs == BotRuns \cup {<<Txn("w2", NoSlot, 0, <<>>)>> \o run : run \in BotRuns}

InitBot ==
    /\ transactions \in BotInputs
    /\ bundle_report = <<>>
    /\ trader_report = <<>>
    /\ detect_raised = FALSE
    /\ analyze_raised = FALSE
    /\ catalog = FACTORS
    /\ fetch = FetchIdle
    /\ ScoreIdle

NextBot == Analyze

SpecBot == InitBot /\ [][NextBot]_vars

\* what the claims about analyze read off the input
PaidBy(wallet) ==
    {i \in 1..Len(transactions) : FeePayerOf(transactions[i]) = wallet}
StampedBy(wallet) == {i \in PaidBy(wallet) : transactions[i].timestamp # NoTs}
StampsOf(wallet) == {transactions[i].timestamp : i \in StampedBy(wallet)}
MaxOf(S) == CHOOSE x \in S : \A y \in S : y <= x
MinOf(S) == CHOOSE x \in S : \A y \in S : x <= y

\* the mean of the consecutive gaps of n sorted timestamps is (last - first) / (n - 1)
MeanGapBelow(wallet, limit) ==
    MaxOf(StampsOf(wallet)) - MinOf(StampsOf(wallet))
        < limit * (Cardinality(StampedBy(wallet)) - 1)

\* C6 as stated: is_bot iff the wallet pays more than 5 transactions, they
\* carry at least 2 distinct timestamps, and the mean gap of the sorted
\* timestamps is below 30 seconds.
C6_BotNeedsDistinctTimestamps ==
    trader_report # <<>> =>
        \A i \in 1..Len(trader_report[1].trader_details) :
            LET d == trader_report[1].trader_details[i]
            IN d.is_bot <=>
                /\ Cardinality(PaidBy(d.wallet)) > 5
                /\ Cardinality(StampsOf(d.wallet)) >= 2
                /\ MeanGapBelow(d.wallet, 30)

\* C6 amended: is_bot iff the wallet pays more than 5 transactions, at least
\* 2 of them carry a timestamp (equal timestamps count separately), and the
\* mean gap of the sorted timestamps is below 30 seconds.
C6_BotRule ==
    trader_report # <<>> =>
        \A i \in 1..Len(trader_report[1].trader_details) :
            LET d == trader_report[1].trader_details[i]
            IN d.is_bot <=>
                /\ Cardinality(PaidBy(d.wallet)) > 5
                /\ Cardinality(StampedBy(d.wallet)) >= 2
                /\ MeanGapBelow(d.wallet, 30)

\* a wallet flagged bot whose timestamped transactions all carry one timestamp
C6_Witness ==
    /\ trader_report # <<>>
    /\ \E i \in 1..Len(trader_report[1].trader_details) :
          LET d == trader_report[1].trader_details[i]
          IN d.is_bot /\ Cardinality(StampsOf(d.wallet)) = 1

----------------------------------------------------------------------------
(* SpecWash: analyze on the transactions of one wallet, each a buy or a    *)
(* sell of mint m1 at one of three times, or one of four special records:  *)
(* a buy and a sell of m2 in one transaction, a sell without timestamp, a  *)
(* transfer without mint, a transfer with both endpoints set.              *)

MaxWashTxns == 4

Buy(mint, wallet) == Transfer(mint, Num(100), "", wallet)
Sell(mint, wallet) == Transfer(mint, Num(100), wallet, "")

WashTxns ==
    {Txn("w1", NoSlot, 0, <<Buy("m1", "w1")>>),
     Txn("w1", NoSlot, 3600, <<Buy("m1", "w1")>>),
     Txn("w1", NoSlot, 0, <<Sell("m1", "w1")>>),
     Txn("w1", NoSlot, 3600, <<Sell("m1", "w1")>>),
     Txn("w1", NoSlot, 3601, <<Sell("m1", "w1")>>),
     Txn("w1", NoSlot, 0, <<Buy("m2", "w1"), Sell("m2", "w1")>>),
     Txn("w1", NoSlot, NoTs, <<Sell("m1", "w1")>>),
     Txn("w1", NoSlot, 0, <<Buy("", "w1")>>),
     Txn("w1", NoSlot, 3600, <<Transfer("m1", Num(100), "w1", "w2")>>)}

WashInputs == UNION {[1..n -> WashTxns] : n \in 0..MaxWashTxns}

InitWash ==
    /\ transactions \in WashInputs
    /\ bundle_report = <<>>
    /\ trader_report = <<>>
    /\ detect_raised = FALSE
    /\ analyze_raised = FALSE
    /\ catalog = FACTORS
    /\ fetch = FetchIdle
    /\ ScoreIdle

NextWash == Analyze

SpecWash == InitWash /\ [][NextWash]_vars

\* The events of a wallet on a mint: <<i, j>> is transfer j of transaction i,
\* a timestamped transaction the wallet pays.
EventsOf(wallet, mint) ==
    {e \in UNION {{<<i, j>> : j \in 1..Len(transactions[i].tokenTransfers)} :
                     i \in StampedBy(wallet)} :
        transactions[e[1]].tokenTransfers[e[2]].mint = mint}
EventTs(e) == transactions[e[1]].timestamp
EventIsBuy(e) == transactions[e[1]].tokenTransfers[e[2]].toUserAccount # ""

\* chronological order, equal times in input order
EventBefore(a, b) ==
    \/ EventTs(a) < EventTs(b)
    \/ /\ EventTs(a) = EventTs(b)
       /\ (a[1] < b[1] \/ (a[1] = b[1] /\ a[2] < b[2]))

\* a sell completes a cycle iff the event just before it on its mint is a buy
\* at most 3600 seconds earlier
ClosesCycle(wallet, mint, sell) ==
    /\ ~EventIsBuy(sell)
    /\ \E buy \in EventsOf(wallet, mint) :
          /\ EventIsBuy(buy)
          /\ EventBefore(buy, sell)
          /\ ~\E mid \in EventsOf(wallet, mint) :
                  EventBefore(buy, mid) /\ EventBefore(mid, sell)
          /\ EventTs(sell) - EventTs(buy) <= 3600

CyclesOn(wallet, mint) ==
    Cardinality({e \in EventsOf(wallet, mint) : ClosesCycle(wallet, mint, e)})

InputMints ==
    UNION {{tr.mint : tr \in Range(transactions[i].tokenTransfers)} :
              i \in 1..Len(transactions)} \ {""}

\* C7: is_wash_trader iff the wallet pays at least 4 transactions and some
\* single mint has at least 2 buy-then-sell cycles, each closed within 3600
\* seconds, among the events of the wallet's timestamped transactions; cycles
\* of different mints are not added.
C7_WashRule ==
    trader_report # <<>> =>
        \A i \in 1..Len(trader_report[1].trader_details) :
            LET d == trader_report[1].trader_details[i]
            IN d.is_wash_trader <=>
                /\ Cardinality(PaidBy(d.wallet)) >= 4
                /\ \E mint \in InputMints : CyclesOn(d.wallet, mint) >= 2

\* a wash trader flagged on one mint while holding a cycle on another
C7_Witness ==
    /\ trader_report # <<>>
    /\ \E i \in 1..Len(trader_report[1].trader_details) :
          LET d == trader_report[1].trader_details[i]
          IN /\ d.is_wash_trader
             /\ CyclesOn(d.wallet, "m2") >= 2
             /\ CyclesOn(d.wallet, "m1") = 1

----------------------------------------------------------------------------
(* SpecSybil: analyze on a cluster of wallets in slot 7, one transaction   *)
(* each, whose transfers carry one of six amount patterns, followed by at  *)
(* most one extra transaction: without fee payer in slot 7, of w1 in       *)
(* another slot, of w2 without slot, or of a further wallet in slot 7      *)
(* under the fee_payer key.                                                *)

MaxCluster == 4

AmountPatterns ==
    {<<Num(50)>>, <<Num(99)>>, <<Str(50)>>, <<BadAmount>>, <<NoAmount>>,
     <<Num(50), Num(50), Num(50), Num(50), Num(50), Num(50), Num(50)>>}

Transfers(wallet, amounts) ==
    [j \in 1..Len(amounts) |-> Transfer("m1", amounts[j], "", wallet)]

Cluster(pats) ==
    [i \in 1..Len(pats) |-> Txn(WalletNames[i], 7, 0, Transfers(WalletNames[i], pats[i]))]

SybilExtras ==
    {<<>>,
     <<Txn("", 7, 0, Transfers("w1", <<Num(99)>>))>>,
     <<Txn("w1", 8, 0, Transfers("w1", <<Num(99)>>))>>,
     <<Txn("w2", NoSlot, 0, Transfers("w2", <<Num(99)>>))>>,
     <<AltKey(Txn("w9", 7, 0, Transfers("w9", <<Num(50)>>)))>>}

SybilInputs ==
    {Cluster(pats) \o extra :
        pats \in UNION {[1..n -> AmountPatterns] : n \in 3..MaxCluster},
        extra \in SybilExtras}

InitSybil ==
    /\ transactions \in SybilInputs
    /\ bundle_report = <<>>
    /\ trader_report = <<>>
    /\ detect_raised = FALSE
    /\ analyze_raised = FALSE
    /\ catalog = FACTORS
    /\ fetch = FetchIdle
    /\ ScoreIdle

NextSybil == Analyze

SpecSybil == InitSybil /\ [][NextSybil]_vars

\* The numeric amounts of the transactions at the indices in txn_ids: <<i, j>>
\* is transfer j of transaction i.
IsNumeric(amt) == amt.kind \in {"num", "str"}
NumericTransfers(txn_ids) ==
    {e \in UNION {{<<i, j>> : j \in 1..Len(transactions[i].tokenTransfers)} :
                     i \in txn_ids} :
        IsNumeric(transactions[e[1]].tokenTransfers[e[2]].tokenAmount)}
AmountValues(txn_ids) ==
    {transactions[e[1]].tokenTransfers[e[2]].tokenAmount.val :
        e \in NumericTransfers(txn_ids)}
FewDistinct(txn_ids) ==
    LET n == Cardinality(NumericTransfers(txn_ids))
    IN /\ n >= 2
       /\ Cardinality(AmountValues(txn_ids)) <= (IF n \div 5 > 1 THEN n \div 5 ELSE 1)

InSlot(slot) == {i \in 1..Len(transactions) : transactions[i].slot = slot}
PaidInSlot(slot) == {i \in InSlot(slot) : FeePayerOf(transactions[i]) # ""}

\* C8 as stated: is_sybil iff some slot holds the wallet as fee payer with at
\* least 3 other distinct fee payers, and the numeric amounts of every
\* transaction in that slot number at least 2 with at most
\* max(1, count // 5) distinct values.
C8_SybilOverAllSlotTransactions ==
    trader_report # <<>> =>
        \A i \in 1..Len(trader_report[1].trader_details) :
            LET d == trader_report[1].trader_details[i]
            IN d.is_sybil <=>
                \E slot \in InputSlots :
                    /\ d.wallet \in PayersAt(slot)
                    /\ Cardinality(PayersAt(slot) \ {d.wallet}) >= 3
                    /\ FewDistinct(InSlot(slot))

\* C8 amended: the amounts inspected are those of the transactions in that
\* slot that carry a fee payer.
C8_SybilRule ==
    trader_report # <<>> =>
        \A i \in 1..Len(trader_report[1].trader_details) :
            LET d == trader_report[1].trader_details[i]
            IN d.is_sybil <=>
                \E slot \in InputSlots :
                    /\ d.wallet \in PayersAt(slot)
                    /\ Cardinality(PayersAt(slot) \ {d.wallet}) >= 3
                    /\ FewDistinct(PaidInSlot(slot))

\* a wallet flagged sybil in a slot that also holds a payer-less transaction
\* with a different amount
C8_Witness ==
    /\ trader_report # <<>>
    /\ \E i \in 1..Len(trader_report[1].trader_details) :
          LET d == trader_report[1].trader_details[i]
          IN /\ d.is_sybil
             /\ \E slot \in InputSlots :
                   /\ d.wallet \in PayersAt(slot)
                   /\ ~FewDistinct(InSlot(slot))

----------------------------------------------------------------------------
(* SpecLabel: analyze on two active wallets and a cluster. w1 and w2 each  *)
(* run one activity (nothing, one buy, six fast buys, six slow buys, two   *)
(* buy-sell cycles, three fast buy-sell cycles), all in slot 7 or all      *)
(* without slot; the cluster puts w3.. in slot 7 with equal or different   *)
(* amounts, optionally receiving from a counterparty that never pays.      *)

Activities == {"none", "one", "fast6", "slow6", "wash4", "botwash6"}

Activity(wallet, kind, slot) ==
    LET buy(ts)  == Txn(wallet, slot, ts, <<Transfer("m1", Num(50), "", wallet)>>)
        sell(ts) == Txn(wallet, slot, ts, <<Transfer("m1", Num(50), wallet, "")>>)
    IN CASE kind = "none"     -> <<>>
         [] kind = "one"      -> <<buy(0)>>
         [] kind = "fast6"    -> <<buy(0), buy(1), buy(2), buy(3), buy(4), buy(5)>>
         [] kind = "slow6"    -> <<buy(0), buy(100), buy(200), buy(300), buy(400), buy(500)>>
         [] kind = "wash4"    -> <<buy(0), sell(100), buy(200), sell(300)>>
         [] kind = "botwash6" -> <<buy(0), sell(1), buy(2), sell(3), buy(4), sell(5)>>

ClusterKinds == {"none", "two", "same", "varied"}

LabelCluster(kind, from) ==
    LET member(i, amt) ==
            Txn(WalletNames[i], 7, 0, <<Transfer("m1", Num(amt), from, WalletNames[i])>>)
    IN CASE kind = "none"   -> <<>>
         [] kind = "two"    -> <<member(3, 50), member(4, 50)>>
         [] kind = "same"   -> <<member(3, 50), member(4, 50), member(5, 50)>>
         [] kind = "varied" -> <<member(3, 50), member(4, 60), member(5, 70)>>

LabelInputs ==
    UNION {{Activity("w1", a1, s1) \o Activity("w2", a2, s2) \o LabelCluster(c, from),
            LabelCluster(c, from) \o Activity("w2", a2, s2) \o Activity("w1", a1, s1)} :
             a1 \in Activities, a2 \in Activities, s1 \in {7, NoSlot},
             s2 \in {7, NoSlot}, c \in ClusterKinds, from \in {"", "cp"}}

\* transactions that name no wallet at all
AnonymousInputs ==
    {<<Txn("", 7, 0, <<>>)>>,
     <<Txn("", NoSlot, NoTs, <<Transfer("m1", Num(50), "", "")>>)>>}

InitLabel ==
    /\ transactions \in LabelInputs \cup AnonymousInputs
    /\ bundle_report = <<>>
    /\ trader_report = <<>>
    /\ detect_raised = FALSE
    /\ analyze_raised = FALSE
    /\ catalog = FACTORS
    /\ fetch = FetchIdle
    /\ ScoreIdle

NextLabel == Analyze

SpecLabel == InitLabel /\ [][NextLabel]_vars

\* every address the input names: fee payers and transfer endpoints
Discovered ==
    UNION {{FeePayerOf(transactions[i])}
           \cup UNION {{tr.fromUserAccount, tr.toUserAccount} :
                          tr \in Range(transactions[i].tokenTransfers)} :
              i \in 1..Len(transactions)} \ {""}

CountLabel(details, label) ==
    Cardinality({i \in 1..Len(details) : details[i].label = label})

\* C3: every discovered wallet is listed exactly once in trader_details with
\* one label of {bot, wash_trader, sybil, real}, the first match in the order
\* bot > wash_trader > sybil > real over its three flags; the four counters
\* are the numbers of entries with each label and sum to total_wallets.
C3_OneLabelByPrecedence ==
    trader_report # <<>> =>
        LET r == trader_report[1]
            details == r.trader_details
        IN /\ {details[i].wallet : i \in 1..Len(details)} = Discovered
           /\ Len(details) = Cardinality(Discovered)
           /\ \A i \in 1..Len(details) :
                LET d == details[i]
                IN /\ d.label \in {"bot", "wash_trader", "sybil", "real"}
                   /\ d.label = "bot" <=> d.is_bot
                   /\ d.label = "wash_trader" <=> (~d.is_bot /\ d.is_wash_trader)
                   /\ d.label = "sybil" <=>
                        (~d.is_bot /\ ~d.is_wash_trader /\ d.is_sybil)
                   /\ d.label = "real" <=>
                        (~d.is_bot /\ ~d.is_wash_trader /\ ~d.is_sybil)
           /\ r.bots = CountLabel(details, "bot")
           /\ r.wash_traders = CountLabel(details, "wash_trader")
           /\ r.sybil_wallets = CountLabel(details, "sybil")
           /\ r.real_traders = CountLabel(details, "real")
           /\ r.bots + r.wash_traders + r.sybil_wallets + r.real_traders
                = r.total_wallets

\* one report with a wallet holding all three flags (bot), one that is wash
\* trader and sybil (wash_trader), one that is only sybil, and a counterparty
\* that never pays (real)
C3_Witness ==
    /\ trader_report # <<>>
    /\ LET details == trader_report[1].trader_details
       IN /\ \E i \in 1..Len(details) :
                /\ details[i].is_bot /\ details[i].is_wash_trader /\ details[i].is_sybil
                /\ details[i].label = "bot"
          /\ \E i \in 1..Len(details) :
                /\ ~details[i].is_bot /\ details[i].is_wash_trader /\ details[i].is_sybil
                /\ details[i].label = "wash_trader"
          /\ \E i \in 1..Len(details) : details[i].label = "sybil"
          /\ \E i \in 1..Len(details) :
                details[i].txn_count = 0 /\ details[i].label = "real"

----------------------------------------------------------------------------
(* SpecScore: score on every combination of token metadata (each flag      *)
(* absent, true or false; bot percentage absent, at or above 50), a few    *)
(* holder lists around the concentration thresholds, bare or wrapped,      *)
(* bundle reports at and above 30 %, and third-party reports with and      *)
(* without score, markets and token-metadata sub-record.                   *)

Holder(address, pct) == [address |-> address, percentage |-> <<pct>>]
List(hs) == [kind |-> "list", holders |-> hs]
Wrapper(hs) == [kind |-> "dict", holders |-> <<hs>>]

Meta(markets, liquidity) ==
    [kind |-> "dict", markets |-> markets, liquidity |-> liquidity]
NoneMeta == [kind |-> "none", markets |-> <<>>, liquidity |-> <<>>]

Rugcheck(score_, markets, tokenMeta, token) ==
    <<[score |-> score_, markets |-> markets, tokenMeta |-> tokenMeta,
       token |-> token]>>

ScoreTokens ==
    [mint_authority_revoked : {<<>>, <<TRUE>>, <<FALSE>>},
     freeze_authority_revoked : {<<>>, <<TRUE>>, <<FALSE>>},
     bot_percentage : {<<>>, <<Pct(50)>>, <<Pct(50) + 1>>, <<Pct(80)>>}]

ScoreHolders ==
    {List(<<>>),
     List(<<Holder("h1", Pct(50))>>),
     List(<<Holder("h1", Pct(50) + 1)>>),
     List(<<Holder("h1", Pct(40)), Holder("h2", Pct(40))>>),
     List(<<Holder("h1", Pct(40)), Holder("h2", Pct(40) + 1)>>),
     Wrapper(<<Holder("h1", Pct(40)), Holder("h2", Pct(40) + 1)>>),
     [kind |-> "dict", holders |-> <<>>],
     List(<<[address |-> "h1", percentage |-> <<>>]>>)}

ScoreBundles ==
    {<<>>,
     <<[bundled_wallet_percentage |-> <<>>]>>,
     <<[bundled_wallet_percentage |-> <<Pct(30)>>]>>,
     <<[bundled_wallet_percentage |-> <<Pct(30) + 1>>]>>}

ScoreRugchecks ==
    {<<>>,
     Rugcheck(<<500>>, <<>>, <<>>, <<>>),
     Rugcheck(<<501>>, <<>>, <<>>, <<>>),
     Rugcheck(<<0>>, <<<<"pool">>>>, <<>>, <<>>),
     Rugcheck(<<501>>, <<<<"pool">>>>, <<>>, <<>>),
     Rugcheck(<<>>, <<<<"pool">>>>, <<>>, <<>>),
     Rugcheck(<<900>>, <<<<>>>>, <<Meta(<<<<"pool">>>>, <<>>)>>, <<>>),
     Rugcheck(<<100>>, <<>>, <<Meta(<<>>, <<7>>)>>, <<>>),
     Rugcheck(<<100>>, <<>>, <<Meta(<<<<>>>>, <<0>>)>>, <<>>),
     Rugcheck(<<100>>, <<>>, <<>>, <<Meta(<<<<"pool">>>>, <<>>)>>),
     Rugcheck(<<100>>, <<>>, <<EmptyMeta>>, <<Meta(<<<<"pool">>>>, <<>>)>>),
     Rugcheck(<<900>>, <<>>, <<NoneMeta>>, <<>>),
     Rugcheck(<<100>>, <<>>, <<>>, <<NoneMeta>>)}

InitScore ==
    /\ transactions = <<>>
    /\ bundle_report = <<>>
    /\ trader_report = <<>>
    /\ detect_raised = FALSE
    /\ analyze_raised = FALSE
    /\ catalog = FACTORS
    /\ fetch = FetchIdle
    /\ token_data \in ScoreTokens
    /\ holder_analysis \in ScoreHolders
    /\ bundle_analysis \in ScoreBundles
    /\ rugcheck_data \in ScoreRugchecks
    /\ risk_report = <<>>
    /\ score_raised = FALSE

NextScore == Score

SpecScore == InitScore /\ [][NextScore]_vars

\* what the claims about score read off the report and the input
FactorNames(report) ==
    {report.factors[i].name : i \in 1..Len(report.factors)}
FactorPoints(report) ==
    SumSeq([i \in 1..Len(report.factors) |-> report.factors[i].points])
PointsOf(report, name) ==
    {report.factors[i].points : i \in {j \in 1..Len(report.factors) :
                                          report.factors[j].name = name}}

\* C1: total_score = min(100, sum of the points of the entries of factors),
\* hence within 0..100, also when all seven compatible factors fire (120).
C1_TotalIsCappedSum ==
    risk_report # <<>> =>
        LET r == risk_report[1]
        IN /\ r.total_score =
                (IF FactorPoints(r) > 100 THEN 100 ELSE FactorPoints(r))
           /\ r.total_score \in 0..100

\* seven factors, raw sum 120, total 100
C1_Witness ==
    /\ risk_report # <<>>
    /\ Len(risk_report[1].factors) = 7
    /\ FactorPoints(risk_report[1]) = 120
    /\ risk_report[1].total_score = 100

\* C2: risk_level is LOW iff total_score < 25, MEDIUM iff 25 <= total_score
\* < 50, HIGH iff 50 <= total_score < 75, CRITICAL iff total_score >= 75.
C2_LevelByBands ==
    risk_report # <<>> =>
        LET r == risk_report[1]
        IN /\ r.risk_level = "LOW" <=> r.total_score < 25
           /\ r.risk_level = "MEDIUM" <=> (25 <= r.total_score /\ r.total_score < 50)
           /\ r.risk_level = "HIGH" <=> (50 <= r.total_score /\ r.total_score < 75)
           /\ r.risk_level = "CRITICAL" <=> r.total_score >= 75

\* a report whose score sits on a threshold, in the higher tier
C2_Witness ==
    /\ risk_report # <<>>
    /\ \/ risk_report[1].total_score = 25 /\ risk_report[1].risk_level = "MEDIUM"
       \/ risk_report[1].total_score = 50 /\ risk_report[1].risk_level = "HIGH"
       \/ risk_report[1].total_score = 75 /\ risk_report[1].risk_level = "CRITICAL"

\* the inputs' own values, defaults applied
InMintRevoked == token_data.mint_authority_revoked = <<TRUE>>
InFreezeRevoked == token_data.freeze_authority_revoked = <<TRUE>>
InBotPct ==
    IF token_data.bot_percentage = <<>> THEN 0 ELSE token_data.bot_percentage[1]
InBundledPct ==
    IF bundle_analysis = <<>> \/ bundle_analysis[1].bundled_wallet_percentage = <<>>
    THEN 0 ELSE bundle_analysis[1].bundled_wallet_percentage[1]
InRugScore ==
    IF rugcheck_data = <<>> \/ rugcheck_data[1].score = <<>>
    THEN 0 ELSE rugcheck_data[1].score[1]

\* C10: each non-concentration factor is triggered exactly when its own
\* condition holds and carries its catalog points: mint (+25) and freeze (+20)
\* authority not revoked, bundled percentage > 30 (+15), bot percentage > 50
\* (+10), third-party score > 500 (+20).
C10_FactorsByOwnCondition ==
    risk_report # <<>> =>
        LET r == risk_report[1]
            names == FactorNames(r)
        IN /\ "mint_authority_not_revoked" \in names <=> ~InMintRevoked
           /\ "freeze_authority_not_revoked" \in names <=> ~InFreezeRevoked
           /\ "bundler_percentage_high" \in names <=> InBundledPct > 300000
           /\ "bot_percentage_high" \in names <=> InBotPct > 500000
           /\ "rugcheck_high_risk" \in names <=> InRugScore > 500
           /\ PointsOf(r, "mint_authority_not_revoked") \subseteq {25}
           /\ PointsOf(r, "freeze_authority_not_revoked") \subseteq {20}
           /\ PointsOf(r, "bundler_percentage_high") \subseteq {15}
           /\ PointsOf(r, "bot_percentage_high") \subseteq {10}
           /\ PointsOf(r, "rugcheck_high_risk") \subseteq {20}

\* the three thresholds met exactly, none of the three factors triggered,
\* both authority factors triggered
C10_Witness ==
    /\ risk_report # <<>>
    /\ InBundledPct = 300000 /\ InBotPct = 500000 /\ InRugScore = 500
    /\ FactorNames(risk_report[1]) \cap
           {"bundler_percentage_high", "bot_percentage_high", "rugcheck_high_risk"} = {}
    /\ {"mint_authority_not_revoked", "freeze_authority_not_revoked"}
           \subseteq FactorNames(risk_report[1])

----------------------------------------------------------------------------
(* SpecTop10: score on every holder list of up to MaxHolders holders whose *)
(* percentages are 5 or 10, bare or wrapped, plus a few lists with         *)
(* fractional percentages just above the thresholds; the other inputs      *)
(* trigger no factor, or the mint factor only.                             *)

MaxHolders == 11

HolderPcts == {Pct(5), Pct(10)}

HolderLists ==
    UNION {[1..n -> HolderPcts] : n \in 0..MaxHolders}
    \cup {<<Pct(50) + 1>>, <<Pct(80) + 51>>, <<Pct(40), Pct(40) + 149>>}

HoldersOf(pcts) == [i \in 1..Len(pcts) |-> Holder(WalletNames[((i - 1) % 9) + 1], pcts[i])]

Top10Holders ==
    {List(HoldersOf(pcts)) : pcts \in HolderLists}
    \cup {Wrapper(HoldersOf(pcts)) : pcts \in HolderLists}

InitTop10 ==
    /\ transactions = <<>>
    /\ bundle_report = <<>>
    /\ trader_report = <<>>
    /\ detect_raised = FALSE
    /\ analyze_raised = FALSE
    /\ catalog = FACTORS
    /\ fetch = FetchIdle
    /\ token_data \in [mint_authority_revoked : {<<TRUE>>, <<FALSE>>},
                       freeze_authority_revoked : {<<TRUE>>},
                       bot_percentage : {<<>>}]
    /\ holder_analysis \in Top10Holders
    /\ bundle_analysis = <<>>
    /\ rugcheck_data = Rugcheck(<<0>>, <<<<"pool">>>>, <<>>, <<>>)
    /\ risk_report = <<>>
    /\ score_raised = FALSE

NextTop10 == Score

SpecTop10 == InitTop10 /\ [][NextTop10]_vars

\* the holder percentages of the input, in input order
InPcts ==
    LET hs == IF holder_analysis.kind = "dict"
              THEN (IF holder_analysis.holders = <<>> THEN <<>>
                    ELSE holder_analysis.holders[1])
              ELSE holder_analysis.holders
    IN [i \in 1..Len(hs) |->
           IF hs[i].percentage = <<>> THEN 0 ELSE hs[i].percentage[1]]

\* the holders fewer than 10 others come before, a greater percentage first
\* and an earlier position first among equals
AmongTop10(i) ==
    Cardinality({j \in 1..Len(InPcts) :
                    \/ InPcts[j] > InPcts[i]
                    \/ InPcts[j] = InPcts[i] /\ j < i}) < 10

SumOfTenLargest ==
    SumSeq([i \in 1..Len(InPcts) |-> IF AmongTop10(i) THEN InPcts[i] ELSE 0])

\* C9: the top-10 concentration is the sum of the 10 largest holder
\* percentages (0 without holders), reported to two decimals;
\* top10_concentration_high (+20) is in factors iff that sum > 80,
\* top10_concentration_medium (+10) iff 50 < sum <= 80, and never both.
C9_Top10Concentration ==
    risk_report # <<>> =>
        LET r == risk_report[1]
            names == FactorNames(r)
        IN /\ r.top10_concentration = Round2(SumOfTenLargest)
           /\ InPcts = <<>> => r.top10_concentration = 0
           /\ "top10_concentration_high" \in names <=> SumOfTenLargest > 800000
           /\ "top10_concentration_medium" \in names <=>
                  (500000 < SumOfTenLargest /\ SumOfTenLargest <= 800000)
           /\ ~({"top10_concentration_high", "top10_concentration_medium"}
                    \subseteq names)
           /\ PointsOf(r, "top10_concentration_high") \subseteq {20}
           /\ PointsOf(r, "top10_concentration_medium") \subseteq {10}

\* eleven holders given smallest first, 85 % together, the ten largest
\* exactly 80 %: medium, not high
C9_Witness ==
    /\ risk_report # <<>>
    /\ Len(InPcts) = 11
    /\ InPcts[1] = 50000
    /\ SumSeq(InPcts) = 850000
    /\ risk_report[1].top10_concentration = 800000
    /\ "top10_concentration_medium" \in FactorNames(risk_report[1])
    /\ "top10_concentration_high" \notin FactorNames(risk_report[1])

----------------------------------------------------------------------------
(* Liquidity evidence, checked under SpecScore.                            *)

\* a non-empty markets list directly in the report
InDirectMarkets ==
    /\ rugcheck_data # <<>>
    /\ rugcheck_data[1].markets # <<>>
    /\ rugcheck_data[1].markets[1] # <<>>

\* a non-empty markets field or a non-zero liquidity field in a sub-record
Evidence(sub) ==
    \/ sub.markets # <<>> /\ sub.markets[1] # <<>>
    \/ sub.liquidity # <<>> /\ sub.liquidity[1] # 0

\* the sub-records of the report: under tokenMeta, under token
InTokenMeta == IF rugcheck_data = <<>> THEN <<>> ELSE rugcheck_data[1].tokenMeta
InToken == IF rugcheck_data = <<>> THEN <<>> ELSE rugcheck_data[1].token

\* the sub-record score reads: tokenMeta when the report has that key,
\* token otherwise
InSubRecord == IF InTokenMeta # <<>> THEN InTokenMeta ELSE InToken

LiquidityEcho(evidence) ==
    LET r == risk_report[1]
    IN /\ "no_liquidity_info" \in FactorNames(r) <=> ~evidence
       /\ PointsOf(r, "no_liquidity_info") \subseteq {10}
       /\ r.liquidity_locked <=> "no_liquidity_info" \notin FactorNames(r)
       /\ rugcheck_data = <<>> => "no_liquidity_info" \in FactorNames(r)

----------------------------------------------------------------------------
(* Monotonicity, checked under SpecScore: the report of the call is        *)
(* compared with score on every input of the family that differs from the  *)
(* call's input in one argument (one key of token_data) only.              *)

\* the triggering conditions an input meets (concentration: 0 up to 50,
\* 1 above 50, 2 above 80)
Conditions(td, ha, ba, rd) ==
    LET top10 == top10_concentration(Holders(ha))
        bundled == IF ba = <<>> THEN 0 ELSE Get(ba[1].bundled_wallet_percentage, 0)
        rug == IF rd = <<>> THEN 0 ELSE Get(rd[1].score, 0)
        Flag(b) == IF b THEN 1 ELSE 0
    IN [mint |-> Flag(td.mint_authority_revoked # <<TRUE>>),
        freeze |-> Flag(td.freeze_authority_revoked # <<TRUE>>),
        concentration |-> IF top10 > 800000 THEN 2 ELSE IF top10 > 500000 THEN 1 ELSE 0,
        bundled |-> Flag(bundled > 300000),
        bot |-> Flag(Get(td.bot_percentage, 0) > 500000),
        no_liquidity |-> Flag(~has_liquidity(rd)),
        rugcheck |-> Flag(rug > 500)]

\* c2 is c1 with one more condition (or the concentration one tier higher)
OneMoreCondition(c1, c2) ==
    \E f \in DOMAIN c1 :
        /\ c2[f] > c1[f]
        /\ \A g \in DOMAIN c1 \ {f} : c2[g] = c1[g]

\* the inputs that differ from the call's input in one place
Neighbours ==
    {<<td, holder_analysis, bundle_analysis, rugcheck_data>> :
        td \in {t \in ScoreTokens :
                   Cardinality({k \in DOMAIN t : t[k] # token_data[k]}) = 1}}
    \cup {<<token_data, ha, bundle_analysis, rugcheck_data>> :
             ha \in ScoreHolders \ {holder_analysis}}
    \cup {<<token_data, holder_analysis, ba, rugcheck_data>> :
             ba \in ScoreBundles \ {bundle_analysis}}
    \cup {<<token_data, holder_analysis, bundle_analysis, rd>> :
             rd \in ScoreRugchecks \ {rugcheck_data}}

\* the neighbours on which score returns and one more condition holds
Above ==
    {x \in Neighbours :
        /\ ~has_liquidity_raises(x[4])
        /\ OneMoreCondition(
               Conditions(token_data, holder_analysis, bundle_analysis, rugcheck_data),
               Conditions(x[1], x[2], x[3], x[4]))}

\* C12: for two inputs that differ only in that one additional triggering
\* condition holds in the second, total_score of the second is >= total_score
\* of the first.
C12_Monotone ==
    risk_report # <<>> =>
        \A x \in Above :
            score(x[1], x[2], x[3], x[4]).total_score >= risk_report[1].total_score

\* the first input scores 95; one more condition worth 10 points (raw 105)
\* raises the total to the cap, 100
C12_Witness ==
    /\ risk_report # <<>>
    /\ risk_report[1].total_score = 95
    /\ \E x \in Above :
           LET second == score(x[1], x[2], x[3], x[4])
           IN FactorPoints(second) = 105 /\ second.total_score = 100

----------------------------------------------------------------------------
(* The bundled-wallet percentage, checked under SpecBundle.                *)

\* the distinct wallets of the slots that hold at least 3 distinct payers
InBundledWallets ==
    UNION {PayersAt(s) : s \in {t \in InputSlots : Cardinality(PayersAt(t)) >= 3}}

\* the distinct fee payers of all transactions, with or without slot
InFeePayers ==
    {FeePayerOf(transactions[i]) : i \in 1..Len(transactions)} \ {""}

InPayerCount == IF InFeePayers = {} THEN 1 ELSE Cardinality(InFeePayers)

BundleEdges(r) ==
    /\ r.bundled_wallet_percentage >= 0
    /\ r.bundled_wallet_percentage <= 1000000
    /\ r.total_bundles = 0 => r.bundled_wallet_percentage = 0
    /\ transactions = <<>> =>
           /\ r.total_bundles = 0
           /\ r.bundle_groups = <<>>
           /\ r.suspicious_bundles = 0
           /\ r.bundled_wallet_percentage = 0

\* C13 as stated: bundled_wallet_percentage = bundled wallets / distinct fee
\* payers of all transactions (1 if none) x 100, within [0,100], 0 without
\* bundle; the empty input gives zero counts and an empty bundle list.
C13_PercentageIsExactQuotient ==
    bundle_report # <<>> =>
        LET r == bundle_report[1]
        IN /\ r.bundled_wallet_percentage * InPayerCount =
                  Cardinality(InBundledWallets) * 1000000
           /\ BundleEdges(r)

\* C13 amended: bundled_wallet_percentage is that quotient rounded to 2
\* decimals: a whole number of hundredths at most half a hundredth away
\* from it.
C13_PercentageIsRoundedQuotient ==
    bundle_report # <<>> =>
        LET r == bundle_report[1]
            diff == r.bundled_wallet_percentage * InPayerCount
                        - Cardinality(InBundledWallets) * 1000000
        IN /\ r.bundled_wallet_percentage % 100 = 0
           /\ 2 * diff <= 100 * InPayerCount
           /\ -2 * diff <= 100 * InPayerCount
           /\ BundleEdges(r)

\* 3 bundled wallets among 7 fee payers, 4 of them only in transactions
\* without slot: 42.86
C13_Witness ==
    /\ bundle_report # <<>>
    /\ Cardinality(InBundledWallets) = 3
    /\ Cardinality(InFeePayers) = 7
    /\ \E w \in InFeePayers :
           \A i \in 1..Len(transactions) :
               FeePayerOf(transactions[i]) = w => transactions[i].slot = NoSlot
    /\ bundle_report[1].bundled_wallet_percentage = 428600

----------------------------------------------------------------------------
(* The bot percentage, checked under SpecLabel.                            *)

InWalletCount == IF Discovered = {} THEN 1 ELSE Cardinality(Discovered)

TraderEdges(r) ==
    /\ r.total_wallets = Cardinality(Discovered)
    /\ r.bot_percentage >= 0
    /\ r.bot_percentage <= 1000000
    /\ transactions = <<>> =>
           /\ r.total_wallets = 0 /\ r.real_traders = 0 /\ r.bots = 0
           /\ r.wash_traders = 0 /\ r.sybil_wallets = 0
           /\ r.bot_percentage = 0
           /\ r.trader_details = <<>>

\* C14 as stated: bot_percentage = bots / total_wallets x 100 (denominator 1
\* when total_wallets is 0), total_wallets the number of distinct addresses
\* seen as fee payer or transfer endpoint; within [0,100]; the empty input
\* gives a zero-valued report with an empty detail list.
C14_BotPercentageIsExactQuotient ==
    trader_report # <<>> =>
        LET r == trader_report[1]
        IN /\ r.bot_percentage * InWalletCount = r.bots * 1000000
           /\ TraderEdges(r)

\* C14 amended: bot_percentage is that quotient rounded to 2 decimals: a
\* whole number of hundredths at most half a hundredth away from it.
C14_BotPercentageIsRoundedQuotient ==
    trader_report # <<>> =>
        LET r == trader_report[1]
            diff == r.bot_percentage * InWalletCount - r.bots * 1000000
        IN /\ r.bot_percentage % 100 = 0
           /\ 2 * diff <= 100 * InWalletCount
           /\ -2 * diff <= 100 * InWalletCount
           /\ TraderEdges(r)

\* one bot among six wallets, one of them a counterparty that never pays:
\* 16.67
C14_Witness ==
    /\ trader_report # <<>>
    /\ trader_report[1].bots = 1
    /\ trader_report[1].total_wallets = 6
    /\ \E w \in Discovered : PaidBy(w) = {}
    /\ trader_report[1].bot_percentage = 166700

----------------------------------------------------------------------------
(* The order of the bundle list, checked under SpecBundle.                 *)

\* the position of the first transaction of a slot
FirstSeen(slot) ==
    CHOOSE i \in 1..Len(transactions) :
        /\ transactions[i].slot = slot
        /\ \A j \in 1..(i - 1) : transactions[j].slot # slot

\* C15: the bundle list is sorted by size descending, and two bundles of
\* equal size appear in the order in which their slots were first met in the
\* input.
C15_BundlesBySizeThenDiscovery ==
    bundle_report # <<>> =>
        LET groups == bundle_report[1].bundle_groups
        IN \A i, j \in 1..Len(groups) :
               i < j =>
                   /\ groups[i].size >= groups[j].size
                   /\ groups[i].size = groups[j].size =>
                          FirstSeen(groups[i].slot) < FirstSeen(groups[j].slot)

\* two bundles of equal size, the one listed first met first although its
\* slot is numerically greater
C15_Witness ==
    /\ bundle_report # <<>>
    /\ LET groups == bundle_report[1].bundle_groups
       IN /\ Len(groups) = 2
          /\ groups[1].size = groups[2].size
          /\ groups[1].slot > groups[2].slot
          /\ FirstSeen(groups[1].slot) < FirstSeen(groups[2].slot)

----------------------------------------------------------------------------
(* Wallets that never pay, checked under SpecLabel.                        *)

\* the addresses named as a transfer endpoint and never as fee payer
TransferOnly == {w \in Discovered : PaidBy(w) = {}}

\* C16: a wallet that appears only as fromUserAccount or toUserAccount and
\* never as fee payer is counted in total_wallets, has one entry in
\* trader_details with txn_count 0 and all three flags false, and is
\* labelled real.
C16_TransferOnlyWalletIsReal ==
    trader_report # <<>> =>
        LET r == trader_report[1]
            details == r.trader_details
        IN /\ r.total_wallets =
                  Cardinality({w \in Discovered : PaidBy(w) # {}})
                      + Cardinality(TransferOnly)
           /\ r.real_traders >= Cardinality(TransferOnly)
           /\ \A w \in TransferOnly :
                  /\ Cardinality({i \in 1..Len(details) : details[i].wallet = w}) = 1
                  /\ \A i \in 1..Len(details) :
                         details[i].wallet = w =>
                             /\ details[i].txn_count = 0
                             /\ ~details[i].is_bot
                             /\ ~details[i].is_wash_trader
                             /\ ~details[i].is_sybil
                             /\ details[i].label = "real"

\* a counterparty that never pays, named by the transfers of a slot whose
\* payers are all sybil, beside a bot
C16_Witness ==
    /\ trader_report # <<>>
    /\ TransferOnly # {}
    /\ trader_report[1].sybil_wallets >= 3
    /\ trader_report[1].bots >= 1
    /\ \E i \in 1..Len(trader_report[1].trader_details) :
           /\ trader_report[1].trader_details[i].wallet \in TransferOnly
           /\ trader_report[1].trader_details[i].label = "real"

----------------------------------------------------------------------------
(* SpecDefect: detect and analyze, in either order, on a list that holds a *)
(* bot (w1, six transactions 10 s apart, slot 1), a wash trader (w2, two   *)
(* buy-sell cycles, slot 2) and a cluster (w3..w6, slot 7, equal amounts), *)
(* with up to MaxDefects defects applied: a transaction loses its slot,    *)
(* its timestamp or its fee payer, or its amounts become non-numeric.      *)

MaxDefects == 2

DefectBase ==
    [i \in 1..6 |-> Txn("w1", 1, 10 * (i - 1), <<Transfer("m2", Num(50), "", "w1")>>)]
    \o <<Txn("w2", 2, 0, <<Transfer("m1", Num(100), "", "w2")>>),
         Txn("w2", 2, 100, <<Transfer("m1", Num(100), "w2", "")>>),
         Txn("w2", 2, 200, <<Transfer("m1", Num(100), "", "w2")>>),
         Txn("w2", 2, 300, <<Transfer("m1", Num(100), "w2", "")>>)>>
    \o [i \in 1..4 |-> Txn(WalletNames[i + 2], 7, 0,
                           <<Transfer("m1", Num(50), "", WalletNames[i + 2])>>)]

DefectKinds == {"no_slot", "no_timestamp", "no_fee_payer", "bad_amount"}

\* the positions defects are applied to: two of each group
DefectPositions == {1, 2, 7, 8, 11, 12}

Defective(txn, kinds) ==
    [feePayer |-> IF "no_fee_payer" \in kinds THEN "" ELSE txn.feePayer,
     fee_payer |-> txn.fee_payer,
     slot |-> IF "no_slot" \in kinds THEN NoSlot ELSE txn.slot,
     timestamp |-> IF "no_timestamp" \in kinds THEN NoTs ELSE txn.timestamp,
     tokenTransfers |->
         IF "bad_amount" \in kinds
         THEN [j \in 1..Len(txn.tokenTransfers) |->
                  [txn.tokenTransfers[j] EXCEPT !.tokenAmount = BadAmount]]
         ELSE txn.tokenTransfers]

WithDefects(defects) ==
    [i \in 1..Len(DefectBase) |->
        Defective(DefectBase[i], {d[2] : d \in {e \in defects : e[1] = i}})]

DefectInputs ==
    {WithDefects(defects) :
        defects \in {D \in SUBSET (DefectPositions \X DefectKinds) :
                        Cardinality(D) <= MaxDefects}}

InitDefect ==
    /\ transactions \in DefectInputs
    /\ bundle_report = <<>>
    /\ trader_report = <<>>
    /\ detect_raised = FALSE
    /\ analyze_raised = FALSE
    /\ catalog = FACTORS
    /\ fetch = FetchIdle
    /\ ScoreIdle

NextDefect == Detect \/ Analyze

SpecDefect == InitDefect /\ [][NextDefect]_vars

\* the detail entries of a wallet
DetailsOf(wallet) ==
    {i \in 1..Len(trader_report[1].trader_details) :
        trader_report[1].trader_details[i].wallet = wallet}

\* C17: on lists whose records may lack slot, timestamp or fee payer or carry
\* a non-numeric tokenAmount, detect and analyze raise nothing; a record
\* without slot is left out of bundle and sybil grouping only, one without
\* timestamp out of bot gaps and wash events only, a non-numeric amount out of
\* the sybil amounts only, while the record's fee payer is counted in
\* total_wallets, in its txn_count and in the bundled-percentage denominator.
C17_DefectsStayLocal ==
    /\ ~detect_raised
    /\ ~analyze_raised
    /\ bundle_report # <<>> =>
           LET r == bundle_report[1]
               groups == r.bundle_groups
               diff == r.bundled_wallet_percentage * InPayerCount
                           - Cardinality(InBundledWallets) * 1000000
           IN /\ {groups[i].slot : i \in 1..Len(groups)} =
                     {s \in InputSlots : Cardinality(PayersAt(s)) >= 3}
              /\ \A i \in 1..Len(groups) :
                     /\ Range(groups[i].wallets) = PayersAt(groups[i].slot)
                     /\ groups[i].txn_count = Cardinality(InSlot(groups[i].slot))
              /\ 2 * diff <= 100 * InPayerCount
              /\ -2 * diff <= 100 * InPayerCount
    /\ trader_report # <<>> =>
           LET r == trader_report[1]
           IN /\ r.total_wallets = Cardinality(Discovered)
              /\ \A w \in InFeePayers :
                     /\ Cardinality(DetailsOf(w)) = 1
                     /\ \A i \in DetailsOf(w) :
                            r.trader_details[i].txn_count = Cardinality(PaidBy(w))
              /\ \A i \in 1..Len(r.trader_details) :
                     LET d == r.trader_details[i]
                     IN /\ d.is_bot <=>
                               /\ Cardinality(PaidBy(d.wallet)) > 5
                               /\ Cardinality(StampedBy(d.wallet)) >= 2
                               /\ MeanGapBelow(d.wallet, 30)
                        /\ d.is_wash_trader <=>
                               /\ Cardinality(PaidBy(d.wallet)) >= 4
                               /\ \E mint \in InputMints : CyclesOn(d.wallet, mint) >= 2
                        /\ d.is_sybil <=>
                               \E slot \in InputSlots :
                                   /\ d.wallet \in PayersAt(slot)
                                   /\ Cardinality(PayersAt(slot) \ {d.wallet}) >= 3
                                   /\ FewDistinct(PaidInSlot(slot))

\* both reports returned for a list where a cluster transaction has no slot
\* and a transaction of the bot has no timestamp: the cluster is a bundle of 3
\* and no longer sybil, its slot-less payer is still a wallet and in the
\* denominator, the bot is still a bot
C17_Witness ==
    /\ bundle_report # <<>>
    /\ trader_report # <<>>
    /\ transactions[11].slot = NoSlot
    /\ transactions[1].timestamp = NoTs
    /\ bundle_report[1].total_bundles = 1
    /\ bundle_report[1].bundle_groups[1].size = 3
    /\ bundle_report[1].bundled_wallet_percentage = 500000
    /\ trader_report[1].total_wallets = 6
    /\ trader_report[1].bots = 1
    /\ trader_report[1].wash_traders = 1
    /\ trader_report[1].sybil_wallets = 0

----------------------------------------------------------------------------
(* Odd sub-records in the third-party report, checked under SpecScore.     *)

\* C18: for every third-party report, also one whose token-metadata
\* sub-record is absent, null or not a record, score returns a report without
\* raising, with liquidity_locked false and no_liquidity_info triggered when
\* nothing else shows liquidity.
C18_OddSubRecordMeansNoLiquidity ==
    /\ ~score_raised
    /\ (/\ risk_report # <<>>
        /\ ~InDirectMarkets
        /\ (InSubRecord = <<>> \/ InSubRecord[1].kind # "dict"))
           => /\ ~risk_report[1].liquidity_locked
              /\ "no_liquidity_info" \in FactorNames(risk_report[1])

----------------------------------------------------------------------------
(* Bare and wrapped holders, checked under SpecScore.                      *)

\* the holders of the call, in the other of the two forms
OtherForm(ha) ==
    IF ha.kind = "dict"
    THEN [kind |-> "list",
          holders |-> IF ha.holders = <<>> THEN <<>> ELSE ha.holders[1]]
    ELSE [kind |-> "dict", holders |-> <<ha.holders>>]

\* C19: score returns the same report for a bare sequence H of holders and
\* for a wrapper record whose holders field is H, the other three arguments
\* being equal.
C19_WrapperEqualsBareList ==
    risk_report # <<>> =>
        risk_report[1] = score(token_data, OtherForm(holder_analysis),
                               bundle_analysis, rugcheck_data)

\* a wrapper whose holders trigger a concentration factor
C19_Witness ==
    /\ risk_report # <<>>
    /\ holder_analysis.kind = "dict"
    /\ holder_analysis.holders # <<>>
    /\ Len(holder_analysis.holders[1]) = 2
    /\ "top10_concentration_high" \in FactorNames(risk_report[1])
    /\ risk_report[1].top10_concentration = 800000

----------------------------------------------------------------------------
(* SpecRerun: detect and analyze run up to MaxRuns times each, in any      *)
(* order, on one transaction list; every run appends its report. The       *)
(* lists are DefectBase with at most one defect.                           *)

MaxRuns == 2

RerunInputs ==
    {WithDefects(defects) :
        defects \in {D \in SUBSET (DefectPositions \X DefectKinds) :
                        Cardinality(D) <= 1}}

\* a further BundlerDetector().detect(transactions), in a run of its own
DetectAgain ==
    /\ bundle_report # <<>>
    /\ Len(bundle_report) < MaxRuns
    /\ ~detect_raises(transactions)
    /\ \E seed \in HashSeeds :
           bundle_report' =
               Append(bundle_report, ListWallets(detect(transactions), seed))
    /\ UNCHANGED <<transactions, token_data, holder_analysis, bundle_analysis,
                   rugcheck_data, trader_report, risk_report, score_raised,
                   detect_raised, analyze_raised, catalog, fetch>>

\* a further TraderAnalyzer().analyze(transactions, holders)
AnalyzeAgain ==
    /\ trader_report # <<>>
    /\ Len(trader_report) < MaxRuns
    /\ ~analyze_raises(transactions)
    /\ trader_report' =
           Append(trader_report, analyze(transactions, Holders(holder_analysis)))
    /\ UNCHANGED <<transactions, token_data, holder_analysis, bundle_analysis,
                   rugcheck_data, bundle_report, risk_report, score_raised,
                   detect_raised, analyze_raised, catalog, fetch>>

InitRerun ==
    /\ transactions \in RerunInputs
    /\ bundle_report = <<>>
    /\ trader_report = <<>>
    /\ detect_raised = FALSE
    /\ analyze_raised = FALSE
    /\ catalog = FACTORS
    /\ fetch = FetchIdle
    /\ ScoreIdle

NextRerun == Detect \/ Analyze \/ DetectAgain \/ AnalyzeAgain

SpecRerun == InitRerun /\ [][NextRerun]_vars

\* C20: detect and analyze, run on the same list in either order or
\* interleaved, each return the report they return alone; repeated runs on
\* the same list give identical reports; neither modifies the list.
C20_RunsAgreeAndLeaveTheListAlone ==
    /\ [](\A i, j \in 1..Len(bundle_report) : bundle_report[i] = bundle_report[j])
    /\ [](\A i, j \in 1..Len(trader_report) : trader_report[i] = trader_report[j])
    /\ [][transactions' = transactions]_vars

----------------------------------------------------------------------------
(* SpecCalls: several score calls in one run, on one scorer or on several  *)
(* (every RiskScorer reads the same class attribute _FACTORS, and score    *)
(* keeps nothing on self).  A call is one step: score does no I/O and      *)
(* never yields, so calls made from several threads or tasks interleave    *)
(* as whole calls.  Between calls the caller may write into a report it    *)
(* was handed.  risk_report is the list of the reports the caller holds.   *)

MaxCalls == 3

\* the argument lists the calls are made with
CallArgs ==
    {<<NoTokenData, List(<<>>), <<>>, <<>>>>,
     <<[mint_authority_revoked |-> <<TRUE>>, freeze_authority_revoked |-> <<TRUE>>,
        bot_percentage |-> <<>>],
       List(<<Holder("h1", Pct(50) + 1)>>),
       <<[bundled_wallet_percentage |-> <<Pct(30) + 1>>]>>,
       Rugcheck(<<501>>, <<<<"pool">>>>, <<>>, <<>>)>>,
     <<[mint_authority_revoked |-> <<TRUE>>, freeze_authority_revoked |-> <<FALSE>>,
        bot_percentage |-> <<Pct(80)>>],
       List(<<>>), <<>>, <<>>>>,
     <<NoTokenData, Wrapper(<<Holder("h1", Pct(80) + 1)>>),
       <<[bundled_wallet_percentage |-> <<Pct(30) + 1>>]>>,
       Rugcheck(<<501>>, <<>>, <<>>, <<>>)>>}

\* a further score call, with arguments of the caller's choice
ScoreAgain ==
    /\ risk_report # <<>>
    /\ Len(risk_report) < MaxCalls
    /\ \E a \in CallArgs :
           /\ ~has_liquidity_raises(a[4])
           /\ token_data' = a[1]
           /\ holder_analysis' = a[2]
           /\ bundle_analysis' = a[3]
           /\ rugcheck_data' = a[4]
           /\ risk_report' = Append(risk_report, score(a[1], a[2], a[3], a[4]))
    /\ UNCHANGED <<transactions, bundle_report, trader_report, score_raised,
                   detect_raised, analyze_raised, catalog, fetch>>

\* the caller zeroes the points of the first factor entry of the report it
\* was handed last: report["factors"][0]["points"] = 0.  The write reaches
\* the catalog when the entry is one of the catalog's own dicts (those carry
\* the key "id", the dicts _add builds carry "name").
CallerEdit ==
    /\ risk_report # <<>>
    /\ LET k == Len(risk_report)
       IN /\ risk_report[k].factors # <<>>
          /\ risk_report[k].factors[1].points # 0
          /\ LET entry == risk_report[k].factors[1]
             IN /\ risk_report' =
                       [risk_report EXCEPT ![k].factors[1].points = 0]
                /\ catalog' =
                       [i \in DOMAIN catalog |->
                           IF catalog[i] = entry
                           THEN [entry EXCEPT !.points = 0] ELSE catalog[i]]
    /\ UNCHANGED <<transactions, token_data, holder_analysis, bundle_analysis,
                   rugcheck_data, bundle_report, trader_report, score_raised,
                   detect_raised, analyze_raised, fetch>>

InitCalls ==
    /\ transactions = <<>>
    /\ bundle_report = <<>>
    /\ trader_report = <<>>
    /\ detect_raised = FALSE
    /\ analyze_raised = FALSE
    /\ catalog = FACTORS
    /\ fetch = FetchIdle
    /\ \E a \in CallArgs :
           /\ token_data = a[1]
           /\ holder_analysis = a[2]
           /\ bundle_analysis = a[3]
           /\ rugcheck_data = a[4]
    /\ risk_report = <<>>
    /\ score_raised = FALSE

NextCalls == Score \/ ScoreAgain \/ CallerEdit

SpecCalls == InitCalls /\ [][NextCalls]_vars

\* whether the condition of a catalog factor holds, c the conditions an input
\* meets
Triggered(factor_id, c) ==
    CASE factor_id = "mint_authority_not_revoked" -> c.mint = 1
      [] factor_id = "freeze_authority_not_revoked" -> c.freeze = 1
      [] factor_id = "top10_concentration_high" -> c.concentration = 2
      [] factor_id = "top10_concentration_medium" -> c.concentration = 1
      [] factor_id = "bundler_percentage_high" -> c.bundled = 1
      [] factor_id = "bot_percentage_high" -> c.bot = 1
      [] factor_id = "no_liquidity_info" -> c.no_liquidity = 1
      [] factor_id = "rugcheck_high_risk" -> c.rugcheck = 1
      [] OTHER -> FALSE

\* the factor list of a call made on its own: the entries of the pristine
\* catalog whose condition holds, in catalog order
FactorsInIsolation(td, h, ba, r) ==
    LET c == Conditions(td, h, ba, r)
        kept == SelectSeq(FACTORS, LAMBDA f : Triggered(f.id, c))
    IN [i \in 1..Len(kept) |->
           [name |-> kept[i].id, points |-> kept[i].points,
            description |-> kept[i].description]]

\* C21: after any sequence of score calls the factor catalog is unchanged,
\* every call returns what the same call returns when made alone (its points
\* and its factor list start empty), and no returned entry is a catalog entry.
C21_CallsLeaveNoTrace ==
    /\ [](catalog = FACTORS)
    /\ [][Len(risk_report') = Len(risk_report) + 1 =>
            LET r == risk_report'[Len(risk_report')]
                alone == FactorsInIsolation(token_data', holder_analysis',
                                            bundle_analysis', rugcheck_data')
                points == SumSeq([i \in 1..Len(alone) |-> alone[i].points])
            IN /\ r.factors = alone
               /\ r.total_score = Min2(100, points)
               /\ r.risk_level = get_risk_level(Min2(100, points))]_vars
    /\ [](\A k \in 1..Len(risk_report) :
             \A j \in 1..Len(risk_report[k].factors) :
                 risk_report[k].factors[j] \notin Range(catalog))

\* three calls; the caller has zeroed the first entry of the first report,
\* and the third call reports the same factor with its catalog points
C21_Witness ==
    /\ Len(risk_report) >= 3
    /\ risk_report[1].factors # <<>>
    /\ risk_report[1].factors[1].points = 0
    /\ risk_report[3].factors # <<>>
    /\ risk_report[3].factors[1].name = risk_report[1].factors[1].name
    /\ risk_report[3].factors[1].points > 0
    /\ Len(risk_report[3].factors) < Len(risk_report[2].factors)
    /\ catalog = FACTORS

----------------------------------------------------------------------------
(* SpecFetch: one call of a public DataFetcher method.  Every request ends *)
(* in a time-out, a connection error, an HTTP status or a JSON body, by    *)
(* the network's choice; a step is one request with the handling of what   *)
(* it ended with, one back-off sleep, or the method's code between two     *)
(* requests.                                                               *)

ErrorCodes == {400, 404, 499, 500, 503}

NullResult == JsonDict(<<None_>>, <<>>, <<>>, <<>>)
WithResult(result) == JsonDict(<<result>>, <<>>, <<>>, <<>>)

\* the JSON bodies a request may be answered with
Bodies(request) ==
    CASE request = "getAsset" ->
             {EmptyDict, NullResult, WithResult(EmptyDict),
              WithResult(JsonDict(<<>>, <<>>, <<"USD Coin">>, <<>>))}
      [] request = "getTokenSupply" ->
             {EmptyDict, NullResult, WithResult(EmptyDict),
              WithResult(JsonDict(<<>>, <<JsonDict(<<>>, <<>>, <<>>, <<1000>>)>>,
                                  <<>>, <<>>))}
      [] request = "getTokenLargestAccounts" ->
             {EmptyDict, NullResult,
              WithResult(JsonDict(<<>>,
                                  <<JsonList(<<[address |-> "a1", uiAmount |-> 250],
                                               [address |-> "a2", uiAmount |-> 750]>>)>>,
                                  <<>>, <<>>))}
      [] request = "transactions" ->
             {EmptyDict, JsonList(<<>>), JsonList(<<[signature |-> "s1"]>>)}
      [] request = "rugcheck" ->
             {EmptyDict, NullResult, JsonDict(<<>>, <<>>, <<"report">>, <<>>)}

Outcomes(request) ==
    {Timeout, ConnectionError}
    \cup {Response(c, EmptyDict) : c \in ErrorCodes}
    \cup {Response(200, b) : b \in Bodies(request)}

\* a public method is called
Call ==
    /\ fetch.method = ""
    /\ \E m \in Methods :
           fetch' = [FetchIdle EXCEPT !.method = m, !.todo = Program(m)]
    /\ UNCHANGED <<transactions, token_data, holder_analysis, bundle_analysis,
                   rugcheck_data, bundle_report, trader_report, risk_report,
                   score_raised, detect_raised, analyze_raised, catalog>>

\* one iteration of the for loop of _post_with_retry / _get_with_retry, up to
\* the call of time.sleep or the return
Attempt ==
    /\ fetch.todo # <<>>
    /\ Head(fetch.todo) # "rugcheck"
    /\ fetch.returned = <<>>
    /\ ~fetch.asleep
    /\ \E o \in Outcomes(Head(fetch.todo)) :
           LET try == IF Head(fetch.todo) = "transactions" THEN TryGet(o)
                      ELSE TryPost(o)
           IN IF try.returns
              THEN fetch' = [fetch EXCEPT !.log = Append(@, o),
                                          !.returned = <<try.value>>]
              ELSE IF SleepsAfter(fetch.attempt)
              THEN fetch' = [fetch EXCEPT !.log = @ \o <<o, Sleep(fetch.attempt)>>,
                                          !.asleep = TRUE]
              ELSE IF fetch.attempt < MAX_RETRIES
              THEN fetch' = [fetch EXCEPT !.log = Append(@, o),
                                          !.attempt = @ + 1]
              ELSE fetch' = [fetch EXCEPT !.log = Append(@, o),
                                          !.returned = <<EmptyDict>>]
    /\ UNCHANGED <<transactions, token_data, holder_analysis, bundle_analysis,
                   rugcheck_data, bundle_report, trader_report, risk_report,
                   score_raised, detect_raised, analyze_raised, catalog>>

\* time.sleep returns: the next iteration, or the end of the loop
Backoff ==
    /\ fetch.asleep
    /\ IF fetch.attempt < MAX_RETRIES
       THEN fetch' = [fetch EXCEPT !.asleep = FALSE, !.attempt = @ + 1]
       ELSE fetch' = [fetch EXCEPT !.asleep = FALSE, !.returned = <<EmptyDict>>]
    /\ UNCHANGED <<transactions, token_data, holder_analysis, bundle_analysis,
                   rugcheck_data, bundle_report, trader_report, risk_report,
                   score_raised, detect_raised, analyze_raised, catalog>>

\* the single request of get_rugcheck_report with its except clause
RugcheckRequest ==
    /\ fetch.todo # <<>>
    /\ Head(fetch.todo) = "rugcheck"
    /\ fetch.returned = <<>>
    /\ \E o \in Outcomes("rugcheck") :
           fetch' = [fetch EXCEPT !.log = <<o>>, !.returned = <<TryRugcheck(o)>>]
    /\ UNCHANGED <<transactions, token_data, holder_analysis, bundle_analysis,
                   rugcheck_data, bundle_report, trader_report, risk_report,
                   score_raised, detect_raised, analyze_raised, catalog>>

\* the method's code after a request: it raises, goes on to its next
\* request, or returns
Continue ==
    /\ fetch.returned # <<>>
    /\ fetch.todo # <<>>
    /\ LET request == Head(fetch.todo)
           data == fetch.returned[1]
       IN IF Raises(request, data)
          THEN fetch' = [fetch EXCEPT !.raised = TRUE, !.todo = <<>>]
          ELSE LET parts == Append(fetch.parts, Parse(request, data, fetch.parts))
               IN fetch' =
                      [fetch EXCEPT
                          !.parts = parts,
                          !.todo = Tail(@),
                          !.attempt = 0,
                          !.log = IF Tail(fetch.todo) = <<>> THEN @ ELSE <<>>,
                          !.returned = IF Tail(fetch.todo) = <<>> THEN @ ELSE <<>>,
                          !.result = IF Tail(fetch.todo) = <<>>
                                     THEN <<ReturnValue(fetch.method, parts)>>
                                     ELSE <<>>]
    /\ UNCHANGED <<transactions, token_data, holder_analysis, bundle_analysis,
                   rugcheck_data, bundle_report, trader_report, risk_report,
                   score_raised, detect_raised, analyze_raised, catalog>>

InitFetch ==
    /\ transactions = <<>>
    /\ bundle_report = <<>>
    /\ trader_report = <<>>
    /\ detect_raised = FALSE
    /\ analyze_raised = FALSE
    /\ catalog = FACTORS
    /\ fetch = FetchIdle
    /\ ScoreIdle

NextFetch == Call \/ Attempt \/ Backoff \/ RugcheckRequest \/ Continue

SpecFetch == InitFetch /\ [][NextFetch]_vars

\* the log of the request whose handling made the method raise, or of the
\* method's last request
LastOutcome == fetch.log[Len(fetch.log)]

\* the failure outcomes: time-out, connection error, HTTP 4xx or 5xx, or a
\* response whose result is null or missing
IsFailure(o) ==
    \/ o.kind \in {"timeout", "connection"}
    \/ (o.kind = "response" /\ o.code >= 400)
    \/ (o.kind = "response" /\ o.code = 200 /\ IsDict(o.body)
        /\ (o.body.result = <<>> \/ o.body.result = <<None_>>))

\* an empty dict or list, or a record of default-valued fields
IsDefault(value) ==
    \/ value = EmptyDict
    \/ value = <<>>
    \/ value = [kind |-> "supply", uiAmount |-> 0]

\* C22 as stated: whenever the last request of a public method has ended in a
\* failure outcome, the method raises nothing, and what it returns is an
\* empty dict or list or default-valued.
C22_FailuresNeverRaise ==
    /\ (fetch.raised => ~IsFailure(LastOutcome))
    /\ (fetch.result # <<>> /\ fetch.method # "get_all_token_data"
        /\ fetch.method # "get_rugcheck_report" /\ IsFailure(LastOutcome))
           => IsDefault(fetch.result[1])

\* Every request is made with timeout=_DEFAULT_TIMEOUT and every sleep is
\* finite, so a loop that can make its next request or end its sleep does.
SpecFetchLive == SpecFetch /\ WF_vars(Attempt) /\ WF_vars(Backoff)

\* a retry loop is running / has returned
InLoop == fetch.todo # <<>> /\ Head(fetch.todo) # "rugcheck"
LoopOver == InLoop /\ fetch.returned # <<>>

\* the requests of the loop's log, and the classes of what they ended with
Requests(log) == SelectSeq(log, LAMBDA e : e.kind # "sleep")
Succeeded(o) == o.kind = "response" /\ o.code < 400
ClientError(o) == o.kind = "response" /\ 400 <= o.code /\ o.code < 500
Retriable(o) ==
    \/ o.kind \in {"timeout", "connection"}
    \/ (o.kind = "response" /\ o.code >= 500)

\* the retry loop, state by state
RetryDiscipline ==
    InLoop =>
        LET log == fetch.log
            n == Len(log)
        IN /\ Len(Requests(log)) <= 3
           \* only a retriable failure is followed by anything, and what
           \* follows it is the sleep, then the next request
           /\ \A i \in 1..n :
                  /\ (log[i].kind # "sleep" /\ i < n) =>
                         (Retriable(log[i]) /\ log[i + 1].kind = "sleep")
                  /\ log[i].kind = "sleep" =>
                         (i > 1 /\ log[i - 1].kind # "sleep"
                          /\ (i = n => ~LoopOver))
           /\ fetch.asleep => (n > 0 /\ log[n].kind = "sleep")
           /\ (~LoopOver /\ n > 0) => log[n].kind = "sleep"
           /\ LoopOver =>
                  /\ n > 0
                  /\ log[n].kind # "sleep"
                  /\ Succeeded(log[n]) => fetch.returned = <<log[n].body>>
                  /\ ClientError(log[n]) => fetch.returned = <<EmptyDict>>
                  /\ Retriable(log[n]) =>
                         (Len(Requests(log)) = 3 /\ fetch.returned = <<EmptyDict>>)

\* C27: a retry loop ends after at most 3 requests: a success is returned and
\* a 4xx (for GET also a 404 status) gives {} with no further request; a
\* time-out, a 5xx or another request error is retried, the third failure
\* gives {}; the loop sleeps between requests only, never after the last.
C27_RetryLoopEnds ==
    /\ []RetryDiscipline
    /\ (InLoop ~> LoopOver)

\* three failed requests, two sleeps between them, {} returned
C27_Witness ==
    /\ LoopOver
    /\ Len(fetch.log) = 5
    /\ Len(Requests(fetch.log)) = 3
    /\ fetch.log[2].kind = "sleep" /\ fetch.log[4].kind = "sleep"
    /\ fetch.log[1].kind = "timeout"
    /\ fetch.log[3].kind = "response" /\ fetch.log[3].code = 503
    /\ fetch.log[5].kind = "connection"
    /\ fetch.returned = <<EmptyDict>>

----------------------------------------------------------------------------
(* The wash-cycle scan and the events it scans, checked under SpecWash.    *)

\* the scan's state after each prefix of the events: index 0 before the first
ScanTrace(events) ==
    [i \in 0..Len(events) |->
        ScanCycles(SubSeq(events, 1, i), [cycles |-> 0, bought_at |-> <<>>])]

\* the sorted timelines _is_wash_trader scans: one per mint, for the wallets
\* that pay at least WASH_MIN_CYCLES * 2 transactions
ScannedTimelines ==
    UNION {{SortedEvents(MintEvents(WalletTxns(transactions, w), mint)) :
               mint \in EventMints(WalletTxns(transactions, w))} :
              w \in {v \in Range(AllWallets(transactions)) :
                        Len(WalletTxns(transactions, v)) >= 4}}

CountDir(events, dir) ==
    Cardinality({i \in 1..Len(events) : events[i].dir = dir})

\* C23: the scan keeps one pending-buy timestamp: a buy sets it (overwriting),
\* a sell at most 3600 s after the pending buy adds one cycle and clears it, a
\* later sell or a sell without pending buy changes nothing; the count never
\* decreases, a buy closes at most one cycle, and the final count is at most
\* min(number of buys, number of sells).
C23_ScanKeepsOnePendingBuy ==
    trader_report # <<>> =>
        \A events \in ScannedTimelines :
            LET tr == ScanTrace(events)
                n == Len(events)
                Closes(i) == tr[i].cycles = tr[i - 1].cycles + 1
            IN /\ tr[0] = [cycles |-> 0, bought_at |-> <<>>]
               /\ \A i \in 1..n :
                      LET ev == events[i]
                          pending == tr[i - 1].bought_at
                      IN /\ ev.dir = "buy" =>
                                 /\ tr[i].bought_at = <<ev.ts>>
                                 /\ tr[i].cycles = tr[i - 1].cycles
                         /\ (ev.dir = "sell" /\ pending # <<>>
                             /\ ev.ts - pending[1] <= 3600) =>
                                 /\ tr[i].cycles = tr[i - 1].cycles + 1
                                 /\ tr[i].bought_at = <<>>
                         /\ (ev.dir = "sell" /\ pending # <<>>
                             /\ ev.ts - pending[1] > 3600) => tr[i] = tr[i - 1]
                         /\ (ev.dir = "sell" /\ pending = <<>>) => tr[i] = tr[i - 1]
                         /\ tr[i].cycles >= tr[i - 1].cycles
               /\ \A i, j \in 1..n :
                      (i < j /\ Closes(i) /\ Closes(j)) =>
                          \E k \in (i + 1)..(j - 1) : events[k].dir = "buy"
               /\ tr[n].cycles = count_buy_sell_cycles(events)
               /\ tr[n].cycles <= Min2(CountDir(events, "buy"), CountDir(events, "sell"))

\* a scanned timeline where a second buy replaces the pending one, the next
\* sell closes a cycle it would have missed, and a last sell finds no buy
C23_Witness ==
    /\ trader_report # <<>>
    /\ \E events \in ScannedTimelines :
          LET tr == ScanTrace(events)
          IN /\ Len(events) = 4
             /\ tr[1].bought_at = <<0>>
             /\ tr[2].bought_at = <<3600>>
             /\ events[3].dir = "sell" /\ events[3].ts = 3601
             /\ tr[3] = [cycles |-> 1, bought_at |-> <<>>]
             /\ events[4].dir = "sell"
             /\ tr[4] = tr[3]

\* the place of an event among the events of its wallet and mint, in input
\* order (transaction by transaction, transfer by transfer)
InputRank(wallet, mint, e) ==
    1 + Cardinality({f \in EventsOf(wallet, mint) :
                        f[1] < e[1] \/ (f[1] = e[1] /\ f[2] < e[2])})

\* C24: every transfer that names a mint, inside a timestamped transaction
\* the wallet pays, contributes one event, a buy iff its toUserAccount is
\* non-empty and a sell otherwise; a transfer with both endpoints set is a buy.
C24_OneEventPerTransfer ==
    trader_report # <<>> =>
        \A wallet \in {w \in Range(AllWallets(transactions)) :
                          Len(WalletTxns(transactions, w)) >= 4} :
            \A mint \in InputMints :
                LET events == MintEvents(WalletTxns(transactions, wallet), mint)
                IN /\ Len(events) = Cardinality(EventsOf(wallet, mint))
                   /\ \A e \in EventsOf(wallet, mint) :
                          LET tr == transactions[e[1]].tokenTransfers[e[2]]
                              ev == events[InputRank(wallet, mint, e)]
                          IN /\ ev.ts = EventTs(e)
                             /\ ev.dir = "buy" <=> tr.toUserAccount # ""
                             /\ ev.dir = "sell" <=> tr.toUserAccount = ""
                             /\ (tr.toUserAccount # "" /\ tr.fromUserAccount # "")
                                    => ev.dir = "buy"

\* a wash trader whose second cycle opens with a transfer it sends to another
\* wallet: both endpoints set, counted as a buy
C24_Witness ==
    /\ trader_report # <<>>
    /\ \E i \in 1..Len(trader_report[1].trader_details) :
          LET d == trader_report[1].trader_details[i]
              sent == {e \in EventsOf(d.wallet, "m1") :
                          transactions[e[1]].tokenTransfers[e[2]].fromUserAccount # ""}
          IN /\ d.is_wash_trader
             /\ Cardinality(EventsOf(d.wallet, "m1")) = 4
             /\ Cardinality(sent) = 3
             /\ Cardinality({e \in sent : EventIsBuy(e)}) = 1
             /\ EventsOf(d.wallet, "m2") = {}

----------------------------------------------------------------------------
(* The sybil test on mostly identical amounts, checked under SpecSybil.    *)

\* how many of the numeric amounts recorded for the slot carry the value v
AmountCount(slot, v) ==
    Cardinality({e \in NumericTransfers(PaidInSlot(slot)) :
                    transactions[e[1]].tokenTransfers[e[2]].tokenAmount.val = v})

\* 80% or more of the slot's amounts are one value
MostlyOneValue(slot) ==
    \E v \in AmountValues(PaidInSlot(slot)) :
        100 * AmountCount(slot, v) >= 80 * Cardinality(NumericTransfers(PaidInSlot(slot)))

\* C25 as stated: a wallet with at least 3 other distinct co-fee-payers in a
\* slot for which at least 2 numeric amounts were recorded is flagged sybil
\* whenever 80% or more of that slot's amounts are the same value.
C25_MostlyIdenticalAmountsFlag ==
    trader_report # <<>> =>
        \A i \in 1..Len(trader_report[1].trader_details) :
            LET d == trader_report[1].trader_details[i]
            IN \A slot \in InputSlots :
                   (/\ d.wallet \in PayersAt(slot)
                    /\ Cardinality(PayersAt(slot) \ {d.wallet}) >= 3
                    /\ Cardinality(NumericTransfers(PaidInSlot(slot))) >= 2
                    /\ MostlyOneValue(slot))
                       => d.is_sybil

----------------------------------------------------------------------------
(* The factor list of one score call, checked under SpecScore.             *)

\* the place of a factor in the catalog, 0 for a name the catalog lacks
CatalogIndex(name) ==
    IF \E k \in 1..Len(FACTORS) : FACTORS[k].id = name
    THEN CHOOSE k \in 1..Len(FACTORS) : FACTORS[k].id = name
    ELSE 0

CatalogOrder ==
    <<"mint_authority_not_revoked", "freeze_authority_not_revoked",
      "top10_concentration_high", "top10_concentration_medium",
      "bundler_percentage_high", "bot_percentage_high", "no_liquidity_info",
      "rugcheck_high_risk">>

\* C26: factors holds each triggered factor exactly once, in catalog order
\* (mint, freeze, top10 high or medium, bundler, bot, no liquidity,
\* rugcheck), each entry with the name, points and description of its catalog
\* entry, and no entry for a factor whose condition does not hold.
C26_FactorsInCatalogOrder ==
    risk_report # <<>> =>
        LET f == risk_report[1].factors
            c == Conditions(token_data, holder_analysis, bundle_analysis,
                            rugcheck_data)
        IN /\ [k \in 1..Len(FACTORS) |-> FACTORS[k].id] = CatalogOrder
           /\ \A i \in 1..Len(f) :
                  /\ DOMAIN f[i] = {"name", "points", "description"}
                  /\ CatalogIndex(f[i].name) > 0
                  /\ f[i].points = FACTORS[CatalogIndex(f[i].name)].points
                  /\ f[i].description = FACTORS[CatalogIndex(f[i].name)].description
                  /\ Triggered(f[i].name, c)
           /\ \A i, j \in 1..Len(f) :
                  i < j => CatalogIndex(f[i].name) < CatalogIndex(f[j].name)
           /\ \A k \in 1..Len(FACTORS) :
                  Triggered(FACTORS[k].id, c) =>
                      \E i \in 1..Len(f) : f[i].name = FACTORS[k].id

\* seven factors, the medium concentration tier third, the third-party one last
C26_Witness ==
    /\ risk_report # <<>>
    /\ Len(risk_report[1].factors) = 7
    /\ risk_report[1].factors[1].name = "mint_authority_not_revoked"
    /\ risk_report[1].factors[3].name = "top10_concentration_medium"
    /\ risk_report[1].factors[3].points = 10
    /\ risk_report[1].factors[6].name = "no_liquidity_info"
    /\ risk_report[1].factors[7].name = "rugcheck_high_risk"

\* C30: with mint authority not revoked, or the flag absent from the token
\* metadata, total_score >= 25 and risk_level is not LOW, whatever the other
\* inputs; with all four inputs empty the report is 55, HIGH, with the
\* factors mint_authority_not_revoked, freeze_authority_not_revoked and
\* no_liquidity_info.
C30_UnrevokedMintIsNeverLow ==
    risk_report # <<>> =>
        LET r == risk_report[1]
        IN /\ token_data.mint_authority_revoked \in {<<>>, <<FALSE>>} =>
                  (r.total_score >= 25 /\ r.risk_level # "LOW")
           /\ (/\ token_data = NoTokenData
               /\ holder_analysis \in {NoHolders, [kind |-> "dict", holders |-> <<>>]}
               /\ bundle_analysis = <<>>
               /\ rugcheck_data = <<>>) =>
                  /\ r.total_score = 55
                  /\ r.risk_level = "HIGH"
                  /\ [i \in 1..Len(r.factors) |-> r.factors[i].name] =
                         <<"mint_authority_not_revoked",
                           "freeze_authority_not_revoked", "no_liquidity_info">>

\* the flag absent and nothing else triggered: 25, MEDIUM
C30_Witness ==
    /\ risk_report # <<>>
    /\ token_data.mint_authority_revoked = <<>>
    /\ risk_report[1].total_score = 25
    /\ risk_report[1].risk_level = "MEDIUM"
    /\ FactorNames(risk_report[1]) = {"mint_authority_not_revoked"}

----------------------------------------------------------------------------
(* Few slots, checked under SpecBundle.                                    *)

\* C29: with at most 10 distinct slot values in the input every bundle is
\* suspicious whatever its size, so suspicious_bundles = total_bundles; a
\* bundle (of size 3 or 4) is non-suspicious only when at least 10 distinct
\* slots numerically smaller than its own occur in the input.
C29_FewSlotsAllSuspicious ==
    bundle_report # <<>> =>
        LET r == bundle_report[1]
            g == r.bundle_groups
        IN /\ Cardinality(InputSlots) <= 10 =>
                  /\ \A i \in 1..Len(g) : g[i].suspicious
                  /\ r.suspicious_bundles = r.total_bundles
           /\ \A i \in 1..Len(g) :
                  ~g[i].suspicious =>
                      /\ g[i].size \in {3, 4}
                      /\ Cardinality({t \in InputSlots : t < g[i].slot}) >= 10

\* ten distinct slots, a bundle of three in the greatest of them, suspicious
C29_Witness ==
    /\ bundle_report # <<>>
    /\ Cardinality(InputSlots) = 10
    /\ bundle_report[1].total_bundles >= 1
    /\ \E i \in 1..Len(bundle_report[1].bundle_groups) :
          LET b == bundle_report[1].bundle_groups[i]
          IN /\ b.size = 3
             /\ b.suspicious
             /\ Cardinality({t \in InputSlots : t < b.slot}) = 9

----------------------------------------------------------------------------
(* SpecCross: detect and analyze on the same transaction list, in either   *)
(* order, over the clusters of SpecSybil, alone or followed by a further   *)
(* wallet in slot 7 or by a transaction of w1 in another slot.             *)

InitCross ==
    /\ transactions \in
           {Cluster(pats) \o extra :
               pats \in UNION {[1..n -> AmountPatterns] : n \in 3..MaxCluster},
               extra \in {<<>>,
                          <<Txn("w1", 8, 0, Transfers("w1", <<Num(99)>>))>>,
                          <<AltKey(Txn("w9", 7, 0, Transfers("w9", <<Num(50)>>)))>>}}
    /\ bundle_report = <<>>
    /\ trader_report = <<>>
    /\ detect_raised = FALSE
    /\ analyze_raised = FALSE
    /\ catalog = FACTORS
    /\ fetch = FetchIdle
    /\ ScoreIdle

NextCross == Detect \/ Analyze

SpecCross == InitCross /\ [][NextCross]_vars

\* the wallets analyze flags is_sybil
SybilFlagged ==
    {trader_report[1].trader_details[i].wallet :
        i \in {j \in 1..Len(trader_report[1].trader_details) :
                  trader_report[1].trader_details[j].is_sybil}}

\* the slot makes the wallet a sybil: the wallet pays in it beside at least 3
\* other payers, and the slot's amounts pass the test
FlaggedBecauseOf(wallet, slot) ==
    /\ wallet \in SybilFlagged
    /\ wallet \in PayersAt(slot)
    /\ Cardinality(PayersAt(slot) \ {wallet}) >= 3
    /\ FewDistinct(PaidInSlot(slot))

\* C28: every wallet analyze flags is_sybil is a member of a bundle of size
\* >= 4 in the report detect returns for the same list; and if one fee payer
\* of a slot is flagged because of that slot, every fee payer of that slot is
\* flagged.
C28_SybilsAreBundled ==
    (bundle_report # <<>> /\ trader_report # <<>>) =>
        LET g == bundle_report[1].bundle_groups
        IN /\ \A w \in SybilFlagged :
                  \E i \in 1..Len(g) : g[i].size >= 4 /\ w \in Range(g[i].wallets)
           /\ \A slot \in InputSlots :
                  (\E w \in PayersAt(slot) : FlaggedBecauseOf(w, slot)) =>
                      PayersAt(slot) \subseteq SybilFlagged

\* five payers in slot 7, all flagged, one bundle of five holding them
C28_Witness ==
    /\ bundle_report # <<>>
    /\ trader_report # <<>>
    /\ Cardinality(PayersAt(7)) = 5
    /\ SybilFlagged = PayersAt(7)
    /\ \E i \in 1..Len(bundle_report[1].bundle_groups) :
          /\ bundle_report[1].bundle_groups[i].size = 5
          /\ Range(bundle_report[1].bundle_groups[i].wallets) = SybilFlagged

====
